---- MODULE Spec2Model ----
(***************************************************************************)
(* A model of the diff log ("pull source") of futures-signals-im, of the   *)
(* diff types of the keyed map and of the ordered vector, of the two       *)
(* containers that feed the log, and of the cursors that pull from it.     *)
(*                                                                         *)
(* Collections are finite functions: a BTreeMap / HashMap is a function    *)
(* whose DOMAIN is its key set, an im::Vector is a sequence (index i of    *)
(* the source is position i + 1 of the sequence).  Option::None is None.   *)
(* Diffs carry one ghost field, stamp: the number of the mutation that     *)
(* created the diff.  No operation of the model reads it.                  *)
(***************************************************************************)
EXTENDS Integers, Sequences, FiniteSets, TLC

\* ------------------------------------------------------------------ bounds
MaxKey == 2         \* keys of the map
MaxOps == 4         \* mutations of a run observed by several cursors
MaxMirrorOps == 5   \* mutations of a run observed by one mirrored cursor
MaxSignals == 2     \* cursors on one log
MaxLen == 3         \* length of the vector
MaxItems == 3       \* items the upstream of the broadcaster produces
MaxTaps == 3        \* signals handed out by the broadcaster
MaxLogOps == 3      \* calls of add_diff and update_keys on a log called directly

Keys == 1..MaxKey
None == -1

\* ------------------------------------------------------- finite functions
EmptyMap == [x \in {} |-> 0]

MapPut(f, k, v) == [x \in (DOMAIN f) \cup {k} |-> IF x = k THEN v ELSE f[x]]

MapDel(f, k) == [x \in (DOMAIN f) \ {k} |-> f[x]]

RECURSIVE SortedSeq(_)
SortedSeq(S) ==
    IF S = {} THEN <<>>
    ELSE LET m == CHOOSE x \in S : \A y \in S : x <= y
         IN <<m>> \o SortedSeq(S \ {m})

Range(s) == {s[i] : i \in DOMAIN s}

\* -------------------------------------------------------------- the diffs
KeyedKinds == {"Insert", "Update", "Remove"}

IsVectorDiff(d) == "snapshot_index" \in DOMAIN d

\* MapDiff::get_key and VectorDiff::get_key
get_key(d) ==
    IF d.kind \in KeyedKinds
    THEN (IF IsVectorDiff(d) THEN d.index ELSE d.key)
    ELSE None

\* MapDiff::get_snapshot_key (the key itself) and VectorDiff::get_snapshot_key
get_snapshot_key(d) ==
    IF d.kind \in KeyedKinds
    THEN (IF IsVectorDiff(d) THEN d.snapshot_index ELSE d.key)
    ELSE None

set_key(d, new_key) ==
    IF IsVectorDiff(d) THEN [d EXCEPT !.index = new_key]
    ELSE [d EXCEPT !.key = new_key]

\* a no-op on map diffs
set_snapshot_key(d, new_key) ==
    IF IsVectorDiff(d) THEN [d EXCEPT !.snapshot_index = new_key] ELSE d

full_replace == [kind |-> "Replace", stamp |-> 0]

\* DiffMergeResult: outcome, the merged diff of Merge, and the reindexer
\* closure, kept as its captured pivot and the direction it moves an index.
NoReindex == [op |-> "none", pivot |-> 0]

MergeResult(outcome, merged, reindex) ==
    [outcome |-> outcome, merged |-> merged, reindex |-> reindex]

\* the closure |i, si| if *si > pivot { *i -+ 1 } else { *i }
Reindexer(r, i, si) ==
    IF si > r.pivot
    THEN (IF r.op = "dec" THEN i - 1 ELSE i + 1)
    ELSE i

\* Insert then Remove keeps the Remove instead of cancelling
MapMergeNoCancel(self, previous) ==
    IF previous.kind = "Insert"
    THEN CASE self.kind = "Update" -> MergeResult("Ignore", self, NoReindex)
           [] self.kind = "Insert" -> MergeResult("Panic", self, NoReindex)
           [] OTHER -> MergeResult("Replace", self, NoReindex)
    ELSE MergeResult("Replace", self, NoReindex)

\* Insert then Update keeps the Update instead of the Insert
MapMergeUpdateWins(self, previous) ==
    IF previous.kind = "Insert"
    THEN CASE self.kind = "Remove" -> MergeResult("DiscardBoth", self, NoReindex)
           [] self.kind = "Insert" -> MergeResult("Panic", self, NoReindex)
           [] OTHER -> MergeResult("Replace", self, NoReindex)
    ELSE MergeResult("Replace", self, NoReindex)

\* Update then Remove keeps both diffs instead of the Remove alone
MapMergeKeepsUpdate(self, previous) ==
    IF previous.kind = "Insert"
    THEN CASE self.kind = "Remove" -> MergeResult("DiscardBoth", self, NoReindex)
           [] self.kind = "Update" -> MergeResult("Ignore", self, NoReindex)
           [] self.kind = "Insert" -> MergeResult("Panic", self, NoReindex)
           [] OTHER -> MergeResult("Replace", self, NoReindex)
    ELSE IF previous.kind = "Update" /\ self.kind = "Remove"
    THEN MergeResult("KeepBoth", self, NoReindex)
    ELSE MergeResult("Replace", self, NoReindex)

\* MapDiff::merge_with_previous

MapDiff_merge_with_previous(self, previous) ==
    IF previous.kind = "Insert"
    THEN CASE self.kind = "Remove" -> MergeResult("DiscardBoth", self, NoReindex)
           [] self.kind = "Update" -> MergeResult("Ignore", self, NoReindex)
           [] self.kind = "Insert" -> MergeResult("Panic", self, NoReindex)
           [] OTHER -> MergeResult("Replace", self, NoReindex)
    ELSE MergeResult("Replace", self, NoReindex)

VectorDiff_merge_with_previous(self, previous) ==
    IF previous.kind = "Insert"
    THEN CASE self.kind = "Remove" ->
                MergeResult("DiscardBoth", self,
                            [op |-> "dec", pivot |-> previous.snapshot_index])
           [] self.kind = "Update" -> MergeResult("Ignore", self, NoReindex)
           [] self.kind = "Insert" -> MergeResult("Panic", self, NoReindex)
           [] OTHER -> MergeResult("Replace", self, NoReindex)
    ELSE IF previous.kind = "Remove"
    THEN IF self.kind = "Insert"
         THEN MergeResult("Merge",
                          [kind |-> "Update", index |-> self.index,
                           snapshot_index |-> self.snapshot_index,
                           stamp |-> self.stamp],
                          [op |-> "inc", pivot |-> self.snapshot_index])
         ELSE MergeResult("KeepBoth", self, NoReindex)
    ELSE MergeResult("Replace", self, NoReindex)

merge_with_previous(self, previous) ==
    IF IsVectorDiff(self)
    THEN VectorDiff_merge_with_previous(self, previous)
    ELSE MapDiff_merge_with_previous(self, previous)

\* --------------------------------------------------------- the pull source
\* StructrualSignalPullSource::new
NewPullSource ==
    [diffs |-> EmptyMap,
     signal_last_diff_numbers |-> EmptyMap,
     diffs_per_key |-> EmptyMap,
     next_diff_index |-> 1,
     next_signal_id |-> 1]

has_listening_signal(ps) == Cardinality(DOMAIN ps.signal_last_diff_numbers) > 0

\* The operations on the log return the new log and a panic flag: a panic
\* leaves the log as the statements before it made it.
Ok(ps) == [ps |-> ps, panic |-> "none"]

Panicked(ps, msg) == [ps |-> ps, panic |-> msg]

\* update_intermediary_diffs that walks the whole log
ReindexWholeLog(ps, start_diff, r) ==
    LET touched == {i \in DOMAIN ps.diffs : get_key(ps.diffs[i]) # None}
        newKey(i) == Reindexer(r, get_key(ps.diffs[i]),
                                  get_snapshot_key(ps.diffs[i]))
    IN Ok([ps EXCEPT !.diffs =
              [i \in DOMAIN ps.diffs |->
                  IF i \in touched /\ newKey(i) >= 0
                  THEN set_key(ps.diffs[i], newKey(i))
                  ELSE ps.diffs[i]]])

\* update_intermediary_diffs: every diff numbered start_diff or more gets its
\* key rewritten by the reindexer.  A usize below zero is an overflow panic;
\* a keyed diff without a snapshot key is a panic of its own.
update_intermediary_diffs(ps, start_diff, r) ==
    LET touched == {i \in DOMAIN ps.diffs :
                        i >= start_diff /\ i < ps.next_diff_index
                        /\ get_key(ps.diffs[i]) # None}
        newKey(i) == Reindexer(r, get_key(ps.diffs[i]),
                                  get_snapshot_key(ps.diffs[i]))
        ps1 == [ps EXCEPT !.diffs =
                  [i \in DOMAIN ps.diffs |->
                      IF i \in touched /\ newKey(i) >= 0
                      THEN set_key(ps.diffs[i], newKey(i))
                      ELSE ps.diffs[i]]]
    IN IF \E i \in touched : get_snapshot_key(ps.diffs[i]) = None
       THEN Panicked(ps, "Diff had a key but not a snapshot key")
       ELSE IF \E i \in touched : newKey(i) < 0
       THEN Panicked(ps1, "attempt to subtract with overflow")
       ELSE Ok(ps1)

\* the tail of add_diff, a global diff clearing the index but not the log
AppendDiffKeepsLog(ps, diff_key, diff) ==
    [ps EXCEPT
        !.diffs_per_key = IF diff_key # None
                          THEN MapPut(@, diff_key, ps.next_diff_index)
                          ELSE EmptyMap,
        !.diffs = MapPut(@, ps.next_diff_index, diff),
        !.next_diff_index = @ + 1]

\* the tail of add_diff, also dropping the older diffs of the key from the log
AppendDiffPurgesKey(ps, diff_key, diff) ==
    LET kept == {n \in DOMAIN ps.diffs : get_key(ps.diffs[n]) # diff_key}
        rest == [n \in kept |-> ps.diffs[n]]
    IN [ps EXCEPT
          !.diffs_per_key = IF diff_key # None
                            THEN MapPut(@, diff_key, ps.next_diff_index)
                            ELSE EmptyMap,
          !.diffs = IF diff_key # None
                    THEN MapPut(rest, ps.next_diff_index, diff)
                    ELSE MapPut(EmptyMap, ps.next_diff_index, diff),
          !.next_diff_index = @ + 1]

\* the tail of add_diff: the diff stands in for the key and is appended
AppendDiff(ps, diff_key, diff) ==
    [ps EXCEPT
        !.diffs_per_key = IF diff_key # None
                          THEN MapPut(@, diff_key, ps.next_diff_index)
                          ELSE EmptyMap,
        !.diffs = IF diff_key # None
                  THEN MapPut(@, ps.next_diff_index, diff)
                  ELSE MapPut(EmptyMap, ps.next_diff_index, diff),
        !.next_diff_index = @ + 1]

\* Ignore that puts the previous diff back but not its index entry
IgnoreForgetsOpenDiff(ps, prev_diff_index, prev_diff, diff_key) ==
    [ps EXCEPT !.diffs = MapPut(@, prev_diff_index, prev_diff)]

\* the Ignore arm of add_diff: undo the removal of the previous diff
IgnoreDiff(ps, prev_diff_index, prev_diff, diff_key) ==
    [ps EXCEPT !.diffs = MapPut(@, prev_diff_index, prev_diff),
               !.diffs_per_key = MapPut(@, diff_key, prev_diff_index)]

\* KeepBoth that wipes the diffs of the other keys from the log
KeepBothWipesOthers(ps, prev_diff_index, prev_diff) ==
    [ps EXCEPT !.diffs = MapPut(EmptyMap, prev_diff_index, prev_diff)]

\* KeepBoth that leaves the previous diff removed
KeepBothDropsPrevious(ps, prev_diff_index, prev_diff) == ps

\* the KeepBoth arm of add_diff: the previous diff returns to the log only
KeepPrevious(ps, prev_diff_index, prev_diff) ==
    [ps EXCEPT !.diffs = MapPut(@, prev_diff_index, prev_diff)]

\* add_diff on a log that has a listening signal
AddDiffListening(ps, diff) ==
    LET diff_key == get_key(diff) IN
    IF diff_key # None /\ diff_key \in DOMAIN ps.diffs_per_key
    THEN
        LET prev_diff_index == ps.diffs_per_key[diff_key] IN
        IF prev_diff_index \notin DOMAIN ps.diffs
        THEN Panicked(ps, "unwrap on None: open diff not in the log")
        ELSE
        LET prev_diff == ps.diffs[prev_diff_index]
            ps1 == [ps EXCEPT !.diffs = MapDel(@, prev_diff_index),
                              !.diffs_per_key = MapDel(@, diff_key)]
            result == merge_with_previous(diff, prev_diff)
        IN
        IF result.outcome = "Panic"
        THEN Panicked(ps1, "Found two inserts on the same key")
        ELSE
        LET re == IF result.reindex.op # "none"
                  THEN update_intermediary_diffs(ps1, prev_diff_index,
                                                 result.reindex)
                  ELSE Ok(ps1)
            ps2 == re.ps
        IN
        IF re.panic # "none" THEN re
        ELSE CASE result.outcome = "Merge" ->
                    Ok(AppendDiff(ps2, diff_key, result.merged))
               [] result.outcome = "Replace" ->
                    Ok(AppendDiff(ps2, diff_key, diff))
               [] result.outcome = "Ignore" ->
                    Ok(IgnoreDiff(ps2, prev_diff_index, prev_diff, diff_key))
               [] result.outcome = "KeepBoth" ->
                    Ok(AppendDiff(KeepPrevious(ps2, prev_diff_index, prev_diff),
                                  diff_key, diff))
               [] OTHER -> Ok(ps2)
    ELSE Ok(AppendDiff(ps, diff_key, diff))

\* add_diff without the early return of an unobserved log
AddDiffUnguarded(ps, diff) == AddDiffListening(ps, diff)

add_diff(ps, diff) ==
    IF ~has_listening_signal(ps) THEN Ok(ps)
    ELSE AddDiffListening(ps, diff)

\* the branch add_diff takes with diff on log ps
AddOutcome(ps, diff) ==
    LET diff_key == get_key(diff) IN
    IF ~has_listening_signal(ps) THEN "Unobserved"
    ELSE IF diff_key = None THEN "Global"
    ELSE IF diff_key \notin DOMAIN ps.diffs_per_key THEN "Append"
    ELSE IF ps.diffs_per_key[diff_key] \notin DOMAIN ps.diffs THEN "Missing"
    ELSE merge_with_previous(diff, ps.diffs[ps.diffs_per_key[diff_key]]).outcome

\* the diffs numbered start_at or more, newest first
DiffsInRangeDescending(ps, start_at) ==
    LET nums == SortedSeq({n \in DOMAIN ps.diffs : n >= start_at})
    IN [i \in DOMAIN nums |-> ps.diffs[nums[Len(nums) + 1 - i]]]

\* the diffs numbered start_at or more, in the order of their numbers
DiffsInRange(ps, start_at) ==
    LET nums == SortedSeq({n \in DOMAIN ps.diffs : n >= start_at})
    IN [i \in DOMAIN nums |-> ps.diffs[nums[i]]]

\* pull_signal whose first pull returns the backlog instead of the sentinel
PullSignalNoBootstrap(ps, signal_id) ==
    LET current_diff_number == ps.next_diff_index - 1
        maybe_last_diff_number ==
            IF signal_id \in DOMAIN ps.signal_last_diff_numbers
            THEN ps.signal_last_diff_numbers[signal_id]
            ELSE None
        ps1 == [ps EXCEPT !.signal_last_diff_numbers =
                              MapPut(@, signal_id, current_diff_number)]
        ps2 == [ps1 EXCEPT !.diffs_per_key = EmptyMap]
        diffs_in_range == DiffsInRange(ps, maybe_last_diff_number + 1)
        has_global_diff ==
            \E i \in DOMAIN diffs_in_range : get_key(diffs_in_range[i]) = None
    IN IF maybe_last_diff_number # None
          /\ maybe_last_diff_number = current_diff_number
       THEN [ps |-> ps1, diffs |-> <<>>]
       ELSE IF has_global_diff
       THEN [ps |-> ps2, diffs |-> <<full_replace>>]
       ELSE [ps |-> ps2, diffs |-> diffs_in_range]

\* pull_signal that returns a batch with a global diff as it is
PullSignalNoCollapse(ps, signal_id) ==
    LET current_diff_number == ps.next_diff_index - 1
        maybe_last_diff_number ==
            IF signal_id \in DOMAIN ps.signal_last_diff_numbers
            THEN ps.signal_last_diff_numbers[signal_id]
            ELSE None
        ps1 == [ps EXCEPT !.signal_last_diff_numbers =
                              MapPut(@, signal_id, current_diff_number)]
        ps2 == [ps1 EXCEPT !.diffs_per_key = EmptyMap]
        diffs_in_range == DiffsInRange(ps, maybe_last_diff_number + 1)
    IN IF maybe_last_diff_number # None
          /\ maybe_last_diff_number = current_diff_number
       THEN [ps |-> ps1, diffs |-> <<>>]
       ELSE IF maybe_last_diff_number = None
       THEN [ps |-> ps2, diffs |-> <<full_replace>>]
       ELSE [ps |-> ps2, diffs |-> diffs_in_range]

\* pull_signal that records no number for a cursor at its first pull
PullSignalForgetsFirst(ps, signal_id) ==
    LET current_diff_number == ps.next_diff_index - 1
        maybe_last_diff_number ==
            IF signal_id \in DOMAIN ps.signal_last_diff_numbers
            THEN ps.signal_last_diff_numbers[signal_id]
            ELSE None
        ps1 == [ps EXCEPT !.signal_last_diff_numbers =
                              MapPut(@, signal_id, current_diff_number)]
        ps2 == [ps1 EXCEPT !.diffs_per_key = EmptyMap]
        diffs_in_range == DiffsInRange(ps, maybe_last_diff_number + 1)
        has_global_diff ==
            \E i \in DOMAIN diffs_in_range : get_key(diffs_in_range[i]) = None
    IN IF maybe_last_diff_number # None
          /\ maybe_last_diff_number = current_diff_number
       THEN [ps |-> ps1, diffs |-> <<>>]
       ELSE IF maybe_last_diff_number = None
       THEN [ps |-> [ps EXCEPT !.diffs_per_key = EmptyMap],
             diffs |-> <<full_replace>>]
       ELSE IF has_global_diff
       THEN [ps |-> ps2, diffs |-> <<full_replace>>]
       ELSE [ps |-> ps2, diffs |-> diffs_in_range]

\* pull_signal that leaves the compaction index as it is
PullSignalKeepsIndex(ps, signal_id) ==
    LET current_diff_number == ps.next_diff_index - 1
        maybe_last_diff_number ==
            IF signal_id \in DOMAIN ps.signal_last_diff_numbers
            THEN ps.signal_last_diff_numbers[signal_id]
            ELSE None
        ps1 == [ps EXCEPT !.signal_last_diff_numbers =
                              MapPut(@, signal_id, current_diff_number)]
        diffs_in_range == DiffsInRange(ps, maybe_last_diff_number + 1)
        has_global_diff ==
            \E i \in DOMAIN diffs_in_range : get_key(diffs_in_range[i]) = None
    IN IF maybe_last_diff_number # None
          /\ maybe_last_diff_number = current_diff_number
       THEN [ps |-> ps1, diffs |-> <<>>]
       ELSE IF maybe_last_diff_number = None
       THEN [ps |-> ps1, diffs |-> <<full_replace>>]
       ELSE IF has_global_diff
       THEN [ps |-> ps1, diffs |-> <<full_replace>>]
       ELSE [ps |-> ps1, diffs |-> diffs_in_range]

\* pull_signal that takes the next number to assign for the newest assigned
PullSignalHeadOffByOne(ps, signal_id) ==
    LET current_diff_number == ps.next_diff_index
        maybe_last_diff_number ==
            IF signal_id \in DOMAIN ps.signal_last_diff_numbers
            THEN ps.signal_last_diff_numbers[signal_id]
            ELSE None
        ps1 == [ps EXCEPT !.signal_last_diff_numbers =
                              MapPut(@, signal_id, current_diff_number)]
        ps2 == [ps1 EXCEPT !.diffs_per_key = EmptyMap]
        diffs_in_range == DiffsInRange(ps, maybe_last_diff_number + 1)
        has_global_diff ==
            \E i \in DOMAIN diffs_in_range : get_key(diffs_in_range[i]) = None
    IN IF maybe_last_diff_number # None
          /\ maybe_last_diff_number = current_diff_number
       THEN [ps |-> ps1, diffs |-> <<>>]
       ELSE IF maybe_last_diff_number = None
       THEN [ps |-> ps2, diffs |-> <<full_replace>>]
       ELSE IF has_global_diff
       THEN [ps |-> ps2, diffs |-> <<full_replace>>]
       ELSE [ps |-> ps2, diffs |-> diffs_in_range]

\* pull_signal that returns the diffs in range as they are, global or not
PullSignalReturnsGlobals(ps, signal_id) ==
    LET current_diff_number == ps.next_diff_index - 1
        maybe_last_diff_number ==
            IF signal_id \in DOMAIN ps.signal_last_diff_numbers
            THEN ps.signal_last_diff_numbers[signal_id]
            ELSE None
        ps1 == [ps EXCEPT !.signal_last_diff_numbers =
                              MapPut(@, signal_id, current_diff_number)]
        ps2 == [ps1 EXCEPT !.diffs_per_key = EmptyMap]
    IN IF maybe_last_diff_number # None
          /\ maybe_last_diff_number = current_diff_number
       THEN [ps |-> ps1, diffs |-> <<>>]
       ELSE IF maybe_last_diff_number = None
       THEN [ps |-> ps2, diffs |-> <<full_replace>>]
       ELSE [ps |-> ps2,
             diffs |-> DiffsInRange(ps, maybe_last_diff_number + 1)]

\* pull_signal returns the new log and the batch
pull_signal(ps, signal_id) ==
    LET current_diff_number == ps.next_diff_index - 1
        maybe_last_diff_number ==
            IF signal_id \in DOMAIN ps.signal_last_diff_numbers
            THEN ps.signal_last_diff_numbers[signal_id]
            ELSE None
        ps1 == [ps EXCEPT !.signal_last_diff_numbers =
                              MapPut(@, signal_id, current_diff_number)]
        ps2 == [ps1 EXCEPT !.diffs_per_key = EmptyMap]
        diffs_in_range == DiffsInRange(ps, maybe_last_diff_number + 1)
        has_global_diff ==
            \E i \in DOMAIN diffs_in_range : get_key(diffs_in_range[i]) = None
    IN IF maybe_last_diff_number # None
          /\ maybe_last_diff_number = current_diff_number
       THEN [ps |-> ps1, diffs |-> <<>>]
       ELSE IF maybe_last_diff_number = None
       THEN [ps |-> ps2, diffs |-> <<full_replace>>]
       ELSE IF has_global_diff
       THEN [ps |-> ps2, diffs |-> <<full_replace>>]
       ELSE [ps |-> ps2, diffs |-> diffs_in_range]

\* update_keys: the keys of diffs_per_key and the snapshot key of every diff
\* of the log go through the updater.  Collecting the mapped entries into a
\* hash map keeps, of the entries that map to one key, the one iterated last:
\* any of them.  The operator yields the set of logs the call can produce.
\* The updater is a function on the keys the log holds (KeysOf).
KeysOf(ps) ==
    DOMAIN ps.diffs_per_key
        \cup ({get_snapshot_key(ps.diffs[i]) : i \in DOMAIN ps.diffs} \ {None})

\* update_keys that moves the entries of the index and leaves the diffs
UpdateKeysIndexOnly(ps, updater) ==
    LET old == ps.diffs_per_key
        newKeys == {updater[k] : k \in DOMAIN old}
        choices == {g \in [newKeys -> {old[k] : k \in DOMAIN old}] :
                      \A nk \in newKeys :
                         \E k \in DOMAIN old : updater[k] = nk /\ g[nk] = old[k]}
    IN {[ps EXCEPT !.diffs_per_key = g] : g \in choices}

update_keys(ps, updater) ==
    LET old == ps.diffs_per_key
        newKeys == {updater[k] : k \in DOMAIN old}
        choices == {g \in [newKeys -> {old[k] : k \in DOMAIN old}] :
                      \A nk \in newKeys :
                         \E k \in DOMAIN old : updater[k] = nk /\ g[nk] = old[k]}
        newDiffs == [i \in DOMAIN ps.diffs |->
                       IF get_snapshot_key(ps.diffs[i]) # None
                       THEN set_snapshot_key(ps.diffs[i],
                                updater[get_snapshot_key(ps.diffs[i])])
                       ELSE ps.diffs[i]]
    IN {[ps EXCEPT !.diffs_per_key = g, !.diffs = newDiffs] : g \in choices}

\* get_next_signal_id that also records a cursor for the id it hands out
GetNextSignalIdRecordsCursor(ps) ==
    [ps EXCEPT !.next_signal_id = @ + 1,
               !.signal_last_diff_numbers =
                   MapPut(@, ps.next_signal_id, ps.next_diff_index - 1)]

get_next_signal_id(ps) == [ps EXCEPT !.next_signal_id = @ + 1]

\* -------------------------------------------------------------- the state
VARIABLES
    hash_map,            \* MutableHashMapState.hash_map
    pull_source,         \* MutableHashMapState.pull_source
    vector,              \* MutableVectorState.vector
    vector_pull_source,  \* MutableVectorState.pull_source
    mirror,              \* the collection owned by the transformer of the cursor
    pc,                  \* per cursor id: where its poll_change stands
    held,                \* per cursor id: the batch pulled, event not yet made
    aborted,             \* "none", or the message of the panic that ended the run
    nops,                \* number of mutations issued so far
    window,              \* ghost: the mutations since the last pull of any cursor
    pending_global,      \* ghost: cursors that pulled before a logged global diff
    seen,                \* ghost: per cursor and key, stamp of the last diff received
    last_poll,           \* ghost: what the poll_change that was the last step did
    probe,               \* ghost: which of the ghost variables are recorded
    last_add,            \* ghost: the last call on the log, and the log before it
    input,               \* StructuralSignalBroadcasterState.input, the upstream
    most_recent_event,   \* StructuralSignalBroadcasterState.most_recent_event
    senders,             \* StructuralSignalBroadcasterState.senders
    receivers,           \* per tap: BroadcastedStructuralSignal.receiver
    tap_pc,              \* per tap: where get_signal or poll_change stands
    received,            \* ghost: per tap, the items its polls returned
    subscribed_after,    \* ghost: per tap, items obtained when it was created
    tap_poll             \* ghost: what the tap poll that was the last step did

vars == <<hash_map, pull_source, vector, vector_pull_source, mirror, pc, held,
          aborted, nops, window, pending_global, seen, last_poll, probe,
          last_add, input, most_recent_event, senders, receivers, tap_pc,
          received, subscribed_after, tap_poll>>

mapVars == <<hash_map, pull_source>>

bcVars == <<input, most_recent_event, senders, receivers, tap_pc, received,
            subscribed_after, tap_poll>>

vecVars == <<vector, vector_pull_source>>

concVars == <<pc, held>>

NoPoll ==
    [id |-> 0, first |-> FALSE, at_head |-> FALSE, owed |-> {},
     result |-> "none",
     diffs |-> <<>>,
     snapshot |-> EmptyMap, live_at_pull |-> EmptyMap, window |-> <<>>,
     pending |-> FALSE, seen |-> 0]

\* no call on the log was recorded
NoAdd ==
    [diff |-> full_replace, before |-> NewPullSource,
     after |-> NewPullSource, outcome |-> "none",
     panic |-> "none", updater |-> EmptyMap, pulls |-> 0]

\* the record of a call of add_diff with diff on log ps
AddRecord(ps, diff) ==
    [diff |-> diff, before |-> ps, after |-> add_diff(ps, diff).ps,
     outcome |-> AddOutcome(ps, diff), panic |-> add_diff(ps, diff).panic,
     updater |-> EmptyMap, pulls |-> 0]

\* the state after MutableHashMap::new() and MutableVector::new()
\* the upstream signal of the broadcaster: avail items were produced, taken
\* of them were handed out by poll_change, ended tells that no more will come,
\* reported_end that a poll returned Ready(None), repolled that the signal
\* was polled again after that
NewInput ==
    [avail |-> 0, taken |-> 0, ended |-> FALSE, reported_end |-> FALSE,
     repolled |-> FALSE]

NoTapPoll == [tap |-> 0, result |-> "none", item |-> None]

Constructed ==
    /\ hash_map = EmptyMap
    /\ pull_source = NewPullSource
    /\ vector = <<>>
    /\ vector_pull_source = NewPullSource
    /\ mirror = EmptyMap
    /\ pc = EmptyMap
    /\ held = EmptyMap
    /\ aborted = "none"
    /\ nops = 0
    /\ window = <<>>
    /\ pending_global = {}
    /\ seen = EmptyMap
    /\ last_poll = NoPoll
    /\ last_add = NoAdd
    /\ input = NewInput
    /\ most_recent_event = None
    /\ senders = <<>>
    /\ receivers = EmptyMap
    /\ tap_pc = EmptyMap
    /\ received = EmptyMap
    /\ subscribed_after = EmptyMap
    /\ tap_poll = NoTapPoll

Init == Constructed /\ probe = "poll"

\* the cursors created so far on a log
Signals(ps) == 1..(ps.next_signal_id - 1)

\* the number of mutations of a run
OpsBound == IF probe \in {"mirror", "vector"} THEN MaxMirrorOps ELSE MaxOps

\* Every mutation writes a value no earlier mutation wrote: its own number.
FreshValue == nops + 1

\* what a mutation leaves behind in the ghost variables
Note(ps, diff) ==
    /\ nops' = nops + 1
    /\ window' = IF probe = "window"
                  THEN Append(window, [kind |-> diff.kind, key |-> get_key(diff),
                                       stamp |-> diff.stamp])
                  ELSE window
    /\ pending_global' =
          IF probe = "poll" /\ get_key(diff) = None /\ has_listening_signal(ps)
          THEN pending_global \cup DOMAIN ps.signal_last_diff_numbers
          ELSE pending_global
    /\ last_poll' = NoPoll
    /\ UNCHANGED <<probe, last_add, bcVars>>

\* --------------------------------------------------- the keyed map container
MapDiff(kind, key) == [kind |-> kind, key |-> key, stamp |-> nops + 1]

GlobalDiff(kind) == [kind |-> kind, stamp |-> nops + 1]

\* MutableHashMapState::add_diff
MapAddDiff(diff) ==
    LET r == add_diff(pull_source, diff)
    IN /\ pull_source' = r.ps
       /\ aborted' = r.panic
       /\ Note(pull_source, diff)
       /\ UNCHANGED <<vecVars, mirror, concVars, seen>>

\* insert: an Insert diff for an absent key, an Update diff for a present one
MapInsert(k) ==
    /\ aborted = "none" /\ nops < OpsBound
    /\ hash_map' = MapPut(hash_map, k, FreshValue)
    /\ MapAddDiff(MapDiff(IF k \in DOMAIN hash_map THEN "Update" ELSE "Insert", k))

\* remove of an absent key returns None before anything is logged
MapRemove(k) ==
    /\ aborted = "none" /\ nops < OpsBound
    /\ k \in DOMAIN hash_map
    /\ hash_map' = MapDel(hash_map, k)
    /\ MapAddDiff(MapDiff("Remove", k))

MapReplace(entries) ==
    /\ aborted = "none" /\ nops < OpsBound
    /\ hash_map' = entries
    /\ MapAddDiff(GlobalDiff("Replace"))

\* clear of an empty map returns before anything is logged
MapClear ==
    /\ aborted = "none" /\ nops < OpsBound
    /\ hash_map # EmptyMap
    /\ hash_map' = EmptyMap
    /\ MapAddDiff(GlobalDiff("Clear"))

\* the arguments of replace: any set of keys, each with a fresh value
ReplaceEntries == {[k \in S |-> FreshValue] : S \in SUBSET Keys}

\* MutableHashMapState::make_event
MapMakeEvent(diffs) == [snapshot |-> hash_map, diffs |-> diffs]

\* MapHashMapTransformer::apply_event with map_fn the identity: the diffs of
\* the event, in order, applied to the transformer's own map m.
RECURSIVE MapApplyDiffs(_, _, _)
MapApplyDiffs(m, diffs, snapshot) ==
    IF diffs = <<>> THEN [m |-> m, panic |-> "none"]
    ELSE LET diff == Head(diffs) IN
         CASE diff.kind = "Replace" ->
                MapApplyDiffs(snapshot, Tail(diffs), snapshot)
           [] diff.kind \in {"Insert", "Update"} ->
                IF diff.key \in DOMAIN snapshot
                THEN MapApplyDiffs(MapPut(m, diff.key, snapshot[diff.key]),
                                   Tail(diffs), snapshot)
                ELSE [m |-> m, panic |-> "unwrap on None: key not in snapshot"]
           [] diff.kind = "Remove" ->
                MapApplyDiffs(MapDel(m, diff.key), Tail(diffs), snapshot)
           [] OTHER -> MapApplyDiffs(EmptyMap, Tail(diffs), snapshot)

MapApplyEvent(m, event) == MapApplyDiffs(m, event.diffs, event.snapshot)

\* ------------------------------------------------------------- the cursors
\* the largest stamp among the diffs a cursor received (0: the sentinel)
SeenAfter(s, diffs) ==
    IF probe = "order"
    THEN CHOOSE m \in {s} \cup {d.stamp : d \in Range(diffs)} :
            \A n \in {s} \cup {d.stamp : d \in Range(diffs)} : n <= m
    ELSE s

\* the numbers of the diffs of the log that some cursor has pulled
Delivered(ps) ==
    {n \in DOMAIN ps.diffs :
        \E id \in DOMAIN ps.signal_last_diff_numbers :
            n <= ps.signal_last_diff_numbers[id]}

\* the diffs some cursor has pulled and cursor id has not
Owed(ps, id) ==
    IF id \notin DOMAIN ps.signal_last_diff_numbers THEN {}
    ELSE {ps.diffs[n] : n \in {m \in Delivered(ps) :
                                   m > ps.signal_last_diff_numbers[id]}}

\* the cursor recorded for id is the newest number assigned
AtHead(ps, id) ==
    /\ id \in DOMAIN ps.signal_last_diff_numbers
    /\ ps.signal_last_diff_numbers[id] = ps.next_diff_index - 1

PollRecord(ps, id, diffs, snapshot, live) ==
    [id |-> id,
     first |-> id \notin DOMAIN ps.signal_last_diff_numbers,
     at_head |-> AtHead(ps, id),
     owed |-> Owed(ps, id),
     result |-> IF diffs = <<>> THEN "Pending" ELSE "Ready",
     diffs |-> diffs,
     snapshot |-> snapshot,
     live_at_pull |-> live,
     window |-> window,
     pending |-> id \in pending_global,
     seen |-> seen[id]]

\* PullSourceStructuralSignal::new on the map: a fresh id, nothing else
MapAsSignal ==
    /\ aborted = "none"
    /\ pull_source.next_signal_id <= MaxSignals
    /\ LET id == pull_source.next_signal_id
       IN /\ pull_source' = get_next_signal_id(pull_source)
          /\ pc' = MapPut(pc, id, "idle")
          /\ held' = MapPut(held, id, <<>>)
          /\ seen' = MapPut(seen, id, 0)
    /\ last_poll' = NoPoll
    /\ UNCHANGED <<hash_map, vecVars, mirror, aborted, nops, window,
                   pending_global, probe, last_add, bcVars>>

\* poll_change that attaches the snapshot of an empty map to a first batch
PollChangeEmptyFirstSnapshot(id) ==
    /\ aborted = "none"
    /\ id \in Signals(pull_source)
    /\ pc[id] = "idle"
    /\ LET r == pull_signal(pull_source, id)
           first == id \notin DOMAIN pull_source.signal_last_diff_numbers
       IN /\ pull_source' = r.ps
          /\ seen' = [seen EXCEPT ![id] = SeenAfter(@, r.diffs)]
          /\ last_poll' = PollRecord(pull_source, id, r.diffs,
                                     IF first THEN EmptyMap ELSE hash_map,
                                     hash_map)
    /\ window' = <<>>
    /\ pending_global' = pending_global \ {id}
    /\ UNCHANGED <<hash_map, vecVars, mirror, concVars, aborted, nops, probe, last_add, bcVars>>

\* poll_change of a cursor on the map, run without interference
MapPollChange(id) ==
    /\ aborted = "none"
    /\ id \in Signals(pull_source)
    /\ pc[id] = "idle"
    /\ LET r == pull_signal(pull_source, id)
           event == MapMakeEvent(r.diffs)
       IN /\ pull_source' = r.ps
          /\ seen' = [seen EXCEPT ![id] = SeenAfter(@, r.diffs)]
          /\ last_poll' = PollRecord(pull_source, id, r.diffs,
                                     event.snapshot, hash_map)
    /\ window' = <<>>
    /\ pending_global' = pending_global \ {id}
    /\ UNCHANGED <<hash_map, vecVars, mirror, concVars, aborted, nops, probe, last_add, bcVars>>

Next ==
    \/ \E k \in Keys : MapInsert(k)
    \/ \E k \in Keys : MapRemove(k)
    \/ \E entries \in ReplaceEntries : MapReplace(entries)
    \/ MapClear
    \/ MapAsSignal
    \/ \E id \in 1..MaxSignals : MapPollChange(id)

Spec == Init /\ [][Next]_vars

\* the closure snapshot() hands to block_on, on a cursor of the map: it polls
\* until the signal has nothing more and keeps the last event it was given
\* (an Option: the empty sequence, or the event alone)
RECURSIVE SnapshotPollFn(_, _, _)
SnapshotPollFn(ps, id, prev_event) ==
    LET r == pull_signal(ps, id)
    IN IF r.diffs = <<>> THEN [ps |-> r.ps, maybe_event |-> prev_event]
       ELSE SnapshotPollFn(r.ps, id, <<MapMakeEvent(r.diffs)>>)

\* StructuralSignalExt::snapshot on cursor id.  With an event the closure is
\* Ready and the call returns Some(event.snapshot()); without one it is
\* Pending and block_on parks the thread.  poll_change of the cursor keeps no
\* waker, so nothing unparks it: the call stays blocked.
SignalSnapshot(id) ==
    /\ aborted = "none"
    /\ id \in Signals(pull_source)
    /\ pc[id] = "idle"
    /\ LET poll_result == SnapshotPollFn(pull_source, id, <<>>)
           maybe_event == poll_result.maybe_event
       IN /\ pull_source' = poll_result.ps
          /\ pc' = [pc EXCEPT ![id] = IF maybe_event = <<>> THEN "blocked"
                                                            ELSE "returned"]
          /\ last_poll' =
                IF maybe_event = <<>>
                THEN [PollRecord(pull_source, id, <<>>, EmptyMap, hash_map)
                         EXCEPT !.result = "Blocked"]
                ELSE [PollRecord(pull_source, id, maybe_event[1].diffs,
                                 maybe_event[1].snapshot, hash_map)
                         EXCEPT !.result = "Some"]
    /\ UNCHANGED <<hash_map, vecVars, mirror, held, aborted, nops, window,
                   pending_global, seen, probe, last_add, bcVars>>

\* the map, its cursors polled by hand, and calls of snapshot()
NextSnapshot ==
    \/ \E k \in Keys : MapInsert(k)
    \/ \E k \in Keys : MapRemove(k)
    \/ \E entries \in ReplaceEntries : MapReplace(entries)
    \/ MapClear
    \/ MapAsSignal
    \/ \E id \in 1..MaxSignals : MapPollChange(id)
    \/ \E id \in 1..MaxSignals : SignalSnapshot(id)

InitSnapshot == Constructed /\ probe = "snapshot"

SpecSnapshot == InitSnapshot /\ [][NextSnapshot]_vars

\* the same program, recording the mutations of the unobserved window
InitWindow == Constructed /\ probe = "window"

SpecWindow == InitWindow /\ [][Next]_vars

\* the same program, recording the stamps each cursor received
InitOrder == Constructed /\ probe = "order"

SpecOrder == InitOrder /\ [][Next]_vars

\* ------------------------------------------ one cursor and its transformer
\* as_signal().map_values(..): TransformedStructuralSignal::new takes the one
\* cursor of the run; the transformer starts from MutableHashMap::new().
MapValuesSignal ==
    /\ aborted = "none"
    /\ pull_source.next_signal_id = 1
    /\ pull_source' = get_next_signal_id(pull_source)
    /\ pc' = MapPut(pc, 1, "idle")
    /\ held' = MapPut(held, 1, <<>>)
    /\ seen' = MapPut(seen, 1, 0)
    /\ mirror' = EmptyMap
    /\ last_poll' = NoPoll
    /\ UNCHANGED <<hash_map, vecVars, aborted, nops, window, pending_global,
                   probe, last_add, bcVars>>

\* the loop of TransformedStructuralSignal::poll_change: the input cursor is
\* polled until it has no update, and every event is applied on the way
RECURSIVE MapDrainInput(_, _, _)
MapDrainInput(ps, m, id) ==
    LET r == pull_signal(ps, id) IN
    IF r.diffs = <<>>
    THEN [ps |-> r.ps, m |-> m, panic |-> "none", diffs |-> <<>>]
    ELSE LET applied == MapApplyEvent(m, MapMakeEvent(r.diffs)) IN
         IF applied.panic # "none"
         THEN [ps |-> r.ps, m |-> applied.m, panic |-> applied.panic,
               diffs |-> r.diffs]
         ELSE LET rest == MapDrainInput(r.ps, applied.m, id)
              IN [rest EXCEPT !.diffs = r.diffs \o @]

MapTransformedPoll ==
    /\ aborted = "none"
    /\ 1 \in Signals(pull_source)
    /\ LET d == MapDrainInput(pull_source, mirror, 1)
       IN /\ pull_source' = d.ps
          /\ mirror' = d.m
          /\ aborted' = d.panic
          /\ last_poll' = PollRecord(pull_source, 1, d.diffs, hash_map, hash_map)
    /\ window' = <<>>
    /\ UNCHANGED <<hash_map, vecVars, concVars, nops, pending_global, seen,
                   probe, last_add, bcVars>>

NextMirror ==
    \/ \E k \in Keys : MapInsert(k)
    \/ \E k \in Keys : MapRemove(k)
    \/ \E entries \in ReplaceEntries : MapReplace(entries)
    \/ MapClear
    \/ MapValuesSignal
    \/ MapTransformedPoll

InitMirror == Constructed /\ probe = "mirror"

SpecMirror == InitMirror /\ [][NextMirror]_vars

\* ------------------------------------------------------ the filter stage
\* the predicate of the stage, as in the example of filter: odd values pass
predicate(v) == v % 2 = 1

\* the entries of map m whose values pass the predicate
Passing(m) ==
    LET keep == {k \in DOMAIN m : predicate(m[k])}
    IN [k \in keep |-> m[k]]

\* FilterHashMapTransformer::apply_event: the diffs of the event, in order,
\* applied to the map m of the stage.  An Insert or Update whose value
\* passes returns from apply_event; one whose value fails asks for
\* read() on the map whose write() guard the function still holds.
RECURSIVE FilterApplyDiffs(_, _, _)
FilterApplyDiffs(m, diffs, snapshot) ==
    IF diffs = <<>> THEN [m |-> m, panic |-> "none"]
    ELSE LET diff == Head(diffs) IN
         CASE diff.kind = "Replace" ->
                FilterApplyDiffs(Passing(snapshot), Tail(diffs), snapshot)
           [] diff.kind \in {"Insert", "Update"} ->
                IF diff.key \notin DOMAIN snapshot
                THEN [m |-> m, panic |-> "unwrap on None: key not in snapshot"]
                ELSE IF predicate(snapshot[diff.key])
                THEN [m |-> MapPut(m, diff.key, snapshot[diff.key]),
                      panic |-> "none"]
                ELSE [m |-> m, panic |-> "deadlock: read() under write()"]
           [] diff.kind = "Remove" ->
                FilterApplyDiffs(MapDel(m, diff.key), Tail(diffs), snapshot)
           [] OTHER -> FilterApplyDiffs(EmptyMap, Tail(diffs), snapshot)

FilterApplyEvent(m, event) == FilterApplyDiffs(m, event.diffs, event.snapshot)

\* input_map.as_signal().filter(predicate): one cursor and the empty map
FilterSignal ==
    /\ aborted = "none"
    /\ pull_source.next_signal_id = 1
    /\ pull_source' = get_next_signal_id(pull_source)
    /\ pc' = MapPut(pc, 1, "idle")
    /\ held' = MapPut(held, 1, <<>>)
    /\ seen' = MapPut(seen, 1, 0)
    /\ mirror' = EmptyMap
    /\ last_poll' = NoPoll
    /\ UNCHANGED <<hash_map, vecVars, aborted, nops, window, pending_global,
                   probe, last_add, bcVars>>

\* the loop of TransformedStructuralSignal::poll_change over the filter
RECURSIVE FilterDrainInput(_, _, _)
FilterDrainInput(ps, m, id) ==
    LET r == pull_signal(ps, id) IN
    IF r.diffs = <<>>
    THEN [ps |-> r.ps, m |-> m, panic |-> "none", diffs |-> <<>>]
    ELSE LET applied == FilterApplyEvent(m, MapMakeEvent(r.diffs)) IN
         IF applied.panic # "none"
         THEN [ps |-> r.ps, m |-> applied.m, panic |-> applied.panic,
               diffs |-> r.diffs]
         ELSE LET rest == FilterDrainInput(r.ps, applied.m, id)
              IN [rest EXCEPT !.diffs = r.diffs \o @]

FilterTransformedPoll ==
    /\ aborted = "none"
    /\ 1 \in Signals(pull_source)
    /\ LET d == FilterDrainInput(pull_source, mirror, 1)
       IN /\ pull_source' = d.ps
          /\ mirror' = d.m
          /\ aborted' = d.panic
          /\ last_poll' = PollRecord(pull_source, 1, d.diffs, hash_map, hash_map)
    /\ window' = <<>>
    /\ UNCHANGED <<hash_map, vecVars, concVars, nops, pending_global, seen,
                   probe, last_add, bcVars>>

NextFilter ==
    \/ \E k \in Keys : MapInsert(k)
    \/ \E k \in Keys : MapRemove(k)
    \/ \E entries \in ReplaceEntries : MapReplace(entries)
    \/ MapClear
    \/ FilterSignal
    \/ FilterTransformedPoll

InitFilter == Constructed /\ probe = "filter"

SpecFilter == InitFilter /\ [][NextFilter]_vars

\* ------------------------------------- poll_change next to a mutating thread
\* The first statement of poll_change: pull_signal under the write lock.  The
\* guard is dropped at the end of the statement; an empty batch is Pending.
MapPullStep(id) ==
    /\ aborted = "none"
    /\ id \in Signals(pull_source)
    /\ pc[id] = "idle"
    /\ LET r == pull_signal(pull_source, id)
       IN /\ pull_source' = r.ps
          /\ IF r.diffs = <<>>
             THEN /\ UNCHANGED <<pc, held>>
                  /\ last_poll' = [NoPoll EXCEPT !.id = id, !.result = "Pending"]
             ELSE /\ pc' = [pc EXCEPT ![id] = "pulled"]
                  /\ held' = [held EXCEPT ![id] = [diffs |-> r.diffs,
                                                   live |-> hash_map]]
                  /\ last_poll' = NoPoll
    /\ UNCHANGED <<hash_map, vecVars, mirror, aborted, nops, window,
                   pending_global, seen, probe, last_add, bcVars>>

\* The second statement: make_event under a read lock taken afterwards
MapMakeEventStep(id) ==
    /\ aborted = "none"
    /\ id \in Signals(pull_source)
    /\ pc[id] = "pulled"
    /\ LET event == MapMakeEvent(held[id].diffs)
       IN last_poll' = [NoPoll EXCEPT !.id = id, !.result = "Ready",
                                      !.diffs = event.diffs,
                                      !.snapshot = event.snapshot,
                                      !.live_at_pull = held[id].live]
    /\ pc' = [pc EXCEPT ![id] = "idle"]
    /\ held' = [held EXCEPT ![id] = <<>>]
    /\ UNCHANGED <<mapVars, vecVars, mirror, aborted, nops, window,
                   pending_global, seen, probe, last_add, bcVars>>

NextConc ==
    \/ \E k \in Keys : MapInsert(k)
    \/ \E k \in Keys : MapRemove(k)
    \/ \E entries \in ReplaceEntries : MapReplace(entries)
    \/ MapClear
    \/ MapAsSignal
    \/ \E id \in 1..MaxSignals : MapPullStep(id)
    \/ \E id \in 1..MaxSignals : MapMakeEventStep(id)

InitConc == Constructed /\ probe = "threads"

SpecConc == InitConc /\ [][NextConc]_vars

\* ---------------------------------------------------- the vector container
VectorDiff(kind, index) ==
    [kind |-> kind, index |-> index, snapshot_index |-> index,
     stamp |-> nops + 1]

\* the value a mutation writes at place i of its arguments: used once
VecValue(i) == FreshValue * (MaxLen + 1) + i

\* im::Vector::insert, remove and set at a 0-based index
InsertAt(v, index, x) ==
    SubSeq(v, 1, index) \o <<x>> \o SubSeq(v, index + 1, Len(v))

RemoveAt(v, index) == SubSeq(v, 1, index) \o SubSeq(v, index + 2, Len(v))

SetAt(v, index, x) == [v EXCEPT ![index + 1] = x]

\* shift_diff_indices that leaves the open diffs where they are
ShiftLeavesKeys(ps, fulcrum, delta) == {ps}

\* MutableVectorState::shift_diff_indices: the logs update_keys can produce
shift_diff_indices(ps, fulcrum, delta) ==
    LET shifted == [index \in KeysOf(ps) |->
                      IF index >= fulcrum
                      THEN (IF index + delta > 0 THEN index + delta ELSE 0)
                      ELSE index]
    IN update_keys(ps, shifted)

\* what a mutation of the vector leaves in the variables it does not own
VecNote(ps, new_ps, panic, diff) ==
    /\ vector_pull_source' = new_ps
    /\ aborted' = panic
    /\ nops' = nops + 1
    /\ last_poll' = NoPoll
    /\ last_add' = AddRecord(ps, diff)
    /\ UNCHANGED <<mapVars, mirror, concVars, seen, window, pending_global,
                   probe, bcVars>>

\* insert: the vector, then the open diffs move up, then the Insert is logged
VecInsertAt(index) ==
    /\ aborted = "none" /\ nops < OpsBound
    /\ Len(vector) < MaxLen
    /\ index \in 0..Len(vector)
    /\ vector' = InsertAt(vector, index, VecValue(0))
    /\ \E ps1 \in shift_diff_indices(vector_pull_source, index, 1) :
          LET diff == VectorDiff("Insert", index)
              r == add_diff(ps1, diff)
          IN VecNote(ps1, r.ps, r.panic, diff)

VecInsert == \E index \in 0..MaxLen : VecInsertAt(index)

VecPushFront == VecInsertAt(0)

VecPushBack ==
    /\ aborted = "none" /\ nops < OpsBound
    /\ Len(vector) < MaxLen
    /\ vector' = Append(vector, VecValue(0))
    /\ LET diff == VectorDiff("Insert", Len(vector))
           r == add_diff(vector_pull_source, diff)
       IN VecNote(vector_pull_source, r.ps, r.panic, diff)

\* remove: the vector, then the Remove is logged, then the open diffs above
\* the index move down
VecRemoveAt(index) ==
    /\ aborted = "none" /\ nops < OpsBound
    /\ index \in 0..(Len(vector) - 1)
    /\ vector' = RemoveAt(vector, index)
    /\ LET diff == VectorDiff("Remove", index)
           r == add_diff(vector_pull_source, diff)
       IN IF r.panic # "none"
          THEN VecNote(vector_pull_source, r.ps, r.panic, diff)
          ELSE \E ps2 \in shift_diff_indices(r.ps, index + 1, -1) :
                  VecNote(vector_pull_source, ps2, "none", diff)

VecRemove == \E index \in 0..MaxLen : VecRemoveAt(index)

\* pop_front of an empty vector is None; else remove(0)
VecPopFront == VecRemoveAt(0)

\* pop_back of an empty vector is None; else the last element goes and a
\* Remove at the new length is logged
VecPopBack ==
    /\ aborted = "none" /\ nops < OpsBound
    /\ Len(vector) > 0
    /\ vector' = SubSeq(vector, 1, Len(vector) - 1)
    /\ LET diff == VectorDiff("Remove", Len(vector) - 1)
           r == add_diff(vector_pull_source, diff)
       IN VecNote(vector_pull_source, r.ps, r.panic, diff)

VecSet ==
    \E index \in 0..MaxLen :
        /\ aborted = "none" /\ nops < OpsBound
        /\ index < Len(vector)
        /\ vector' = SetAt(vector, index, VecValue(0))
        /\ LET diff == VectorDiff("Update", index)
               r == add_diff(vector_pull_source, diff)
           IN VecNote(vector_pull_source, r.ps, r.panic, diff)

VecReplace ==
    \E n \in 0..MaxLen :
        /\ aborted = "none" /\ nops < OpsBound
        /\ vector' = [i \in 1..n |-> VecValue(i)]
        /\ LET diff == GlobalDiff("Replace")
               r == add_diff(vector_pull_source, diff)
           IN VecNote(vector_pull_source, r.ps, r.panic, diff)

\* clear of an empty vector returns before anything is logged
VecClear ==
    /\ aborted = "none" /\ nops < OpsBound
    /\ vector # <<>>
    /\ vector' = <<>>
    /\ LET diff == GlobalDiff("Clear")
           r == add_diff(vector_pull_source, diff)
       IN VecNote(vector_pull_source, r.ps, r.panic, diff)

\* MutableVectorState::make_event
VecMakeEvent(diffs) == [snapshot |-> vector, diffs |-> diffs]

\* MapVectorTransformer::apply_event with map_fn the identity.  Reading the
\* snapshot past its end, and insert, set or remove past the end of the
\* vector of the transformer, panic.
RECURSIVE VecApplyDiffs(_, _, _)
VecApplyDiffs(m, diffs, snapshot) ==
    IF diffs = <<>> THEN [m |-> m, panic |-> "none"]
    ELSE LET diff == Head(diffs) IN
         CASE diff.kind = "Replace" ->
                VecApplyDiffs(snapshot, Tail(diffs), snapshot)
           [] diff.kind = "Insert" ->
                IF diff.snapshot_index >= Len(snapshot)
                THEN [m |-> m, panic |-> "snapshot index out of bounds"]
                ELSE IF diff.index > Len(m)
                THEN [m |-> m, panic |-> "insert index out of bounds"]
                ELSE VecApplyDiffs(
                        InsertAt(m, diff.index, snapshot[diff.snapshot_index + 1]),
                        Tail(diffs), snapshot)
           [] diff.kind = "Update" ->
                IF diff.snapshot_index >= Len(snapshot)
                THEN [m |-> m, panic |-> "snapshot index out of bounds"]
                ELSE IF diff.index >= Len(m)
                THEN [m |-> m, panic |-> "set index out of bounds"]
                ELSE VecApplyDiffs(
                        SetAt(m, diff.index, snapshot[diff.snapshot_index + 1]),
                        Tail(diffs), snapshot)
           [] diff.kind = "Remove" ->
                IF diff.index >= Len(m)
                THEN [m |-> m, panic |-> "remove index out of bounds"]
                ELSE VecApplyDiffs(RemoveAt(m, diff.index), Tail(diffs), snapshot)
           [] OTHER -> VecApplyDiffs(<<>>, Tail(diffs), snapshot)

VecApplyEvent(m, event) == VecApplyDiffs(m, event.diffs, event.snapshot)

\* as_signal().map(..) on the vector: the one cursor and its transformer
VecMapSignal ==
    /\ aborted = "none"
    /\ vector_pull_source.next_signal_id = 1
    /\ vector_pull_source' = get_next_signal_id(vector_pull_source)
    /\ pc' = MapPut(pc, 1, "idle")
    /\ held' = MapPut(held, 1, <<>>)
    /\ seen' = MapPut(seen, 1, 0)
    /\ mirror' = <<>>
    /\ last_poll' = NoPoll
    /\ last_add' = NoAdd
    /\ UNCHANGED <<mapVars, vector, aborted, nops, window, pending_global,
                   probe, bcVars>>

RECURSIVE VecDrainInput(_, _, _)
VecDrainInput(ps, m, id) ==
    LET r == pull_signal(ps, id) IN
    IF r.diffs = <<>>
    THEN [ps |-> r.ps, m |-> m, panic |-> "none", diffs |-> <<>>]
    ELSE LET applied == VecApplyEvent(m, VecMakeEvent(r.diffs)) IN
         IF applied.panic # "none"
         THEN [ps |-> r.ps, m |-> applied.m, panic |-> applied.panic,
               diffs |-> r.diffs]
         ELSE LET rest == VecDrainInput(r.ps, applied.m, id)
              IN [rest EXCEPT !.diffs = r.diffs \o @]

VecTransformedPoll ==
    /\ aborted = "none"
    /\ 1 \in Signals(vector_pull_source)
    /\ LET d == VecDrainInput(vector_pull_source, mirror, 1)
       IN /\ vector_pull_source' = d.ps
          /\ mirror' = d.m
          /\ aborted' = d.panic
          /\ last_poll' = PollRecord(vector_pull_source, 1, d.diffs, vector,
                                     vector)
    /\ window' = <<>>
    /\ last_add' = [last_add EXCEPT !.pulls = IF @ < 2 THEN @ + 1 ELSE @]
    /\ UNCHANGED <<mapVars, vector, concVars, nops, pending_global, seen,
                   probe, bcVars>>

NextVec ==
    \/ VecPushBack
    \/ VecPushFront
    \/ VecInsert
    \/ VecPopBack
    \/ VecPopFront
    \/ VecRemove
    \/ VecSet
    \/ VecReplace
    \/ VecClear
    \/ VecMapSignal
    \/ VecTransformedPoll

InitVec == Constructed /\ probe = "vector"

SpecVec == InitVec /\ [][NextVec]_vars

\* ------------------------------------------- the log, called directly
\* The log is public to every PullSourceHost: here a host calls add_diff,
\* pull_signal, get_next_signal_id and update_keys in any order, with map
\* diffs (probe "log") or vector diffs (probe "vlog").

\* the diffs a host can hand to add_diff
LogDiffs ==
    IF probe = "vlog"
    THEN {VectorDiff(kind, k) : kind \in KeyedKinds, k \in Keys}
            \cup {GlobalDiff("Replace"), GlobalDiff("Clear")}
    ELSE {MapDiff(kind, k) : kind \in KeyedKinds, k \in Keys}
            \cup {GlobalDiff("Replace"), GlobalDiff("Clear")}

LogAdd(diff) ==
    /\ aborted = "none" /\ nops < MaxLogOps
    /\ LET r == add_diff(pull_source, diff)
       IN /\ pull_source' = r.ps
          /\ aborted' = r.panic
          /\ last_add' = AddRecord(pull_source, diff)
    /\ nops' = nops + 1
    /\ last_poll' = NoPoll
    /\ UNCHANGED <<hash_map, vecVars, mirror, concVars, window,
                   pending_global, seen, probe, bcVars>>

LogSubscribe ==
    /\ aborted = "none"
    /\ pull_source.next_signal_id <= MaxSignals
    /\ pull_source' = get_next_signal_id(pull_source)
    /\ seen' = MapPut(seen, pull_source.next_signal_id, 0)
    /\ last_poll' = NoPoll
    /\ last_add' = NoAdd
    /\ UNCHANGED <<hash_map, vecVars, mirror, concVars, aborted, nops, window,
                   pending_global, probe, bcVars>>

LogPull(id) ==
    /\ aborted = "none"
    /\ id \in Signals(pull_source)
    /\ LET r == pull_signal(pull_source, id)
       IN /\ pull_source' = r.ps
          /\ last_poll' = PollRecord(pull_source, id, r.diffs, EmptyMap,
                                     EmptyMap)
    /\ last_add' = [last_add EXCEPT !.pulls = IF @ < 2 THEN @ + 1 ELSE @]
    /\ UNCHANGED <<hash_map, vecVars, mirror, concVars, aborted, nops, window,
                   pending_global, seen, probe, bcVars>>

LogUpdateKeys(updater) ==
    /\ aborted = "none" /\ nops < MaxLogOps
    /\ KeysOf(pull_source) # {}
    /\ pull_source' \in update_keys(pull_source, updater)
    /\ last_add' = [diff |-> full_replace, before |-> pull_source,
                    after |-> pull_source',
                    outcome |-> "update_keys", panic |-> "none",
                    updater |-> updater, pulls |-> 0]
    /\ nops' = nops + 1
    /\ last_poll' = NoPoll
    /\ UNCHANGED <<hash_map, vecVars, mirror, concVars, aborted, window,
                   pending_global, seen, probe, bcVars>>

NextLog ==
    \/ \E diff \in LogDiffs : LogAdd(diff)
    \/ LogSubscribe
    \/ \E id \in 1..MaxSignals : LogPull(id)
    \/ \E updater \in [KeysOf(pull_source) -> Keys] : LogUpdateKeys(updater)

InitLog == Constructed /\ probe \in {"log", "vlog"}

SpecLog == InitLog /\ [][NextLog]_vars

\* ------------------------------------------------------- the broadcaster
\* The upstream hands out its items in order; an item is its number.  An
\* mpsc channel is a record: the queue, open (no close_channel and a sender
\* alive), alive (the receiver was not dropped).
CHANNEL_CLEANUP_MIN_COUNT == 20

collectionVars ==
    <<mapVars, vecVars, mirror, concVars, aborted, nops, window,
      pending_global, seen, last_poll, probe, last_add>>

\* The event that item i stands for when the upstream is the cursor of a
\* map that is empty at the first poll and gets key i - 1 before poll i:
\* [Replace] with the empty map, then [Insert(i - 1)] with the map so far.
ItemEvent(i) ==
    [diffs |-> IF i = 1 THEN <<full_replace>>
               ELSE <<[kind |-> "Insert", key |-> i - 1, stamp |-> i - 1]>>,
     snapshot |-> [k \in 1..(i - 1) |-> k]]

\* poll_change of the upstream: Ready(Some(item)), Ready(None) or Pending
InputPoll(in) ==
    IF in.taken < in.avail
    THEN [input |-> [in EXCEPT !.taken = @ + 1,
                               !.repolled = @ \/ in.reported_end],
          result |-> "Item", item |-> in.taken + 1]
    ELSE IF in.ended
    THEN [input |-> [in EXCEPT !.reported_end = TRUE,
                               !.repolled = @ \/ in.reported_end],
          result |-> "Closed", item |-> None]
    ELSE [input |-> [in EXCEPT !.repolled = @ \/ in.reported_end],
          result |-> "Pending", item |-> None]

\* mpsc::unbounded()
NewChannel == [queue |-> <<>>, open |-> TRUE, alive |-> TRUE]

\* UnboundedSender::is_closed
is_closed(ch) == ~ch.alive \/ ~ch.open

\* UnboundedReceiver::poll_next: the channel after the poll and the result
poll_next(ch) ==
    IF ch.queue # <<>>
    THEN [ch |-> [ch EXCEPT !.queue = Tail(@)],
          result |-> "Item", item |-> Head(ch.queue)]
    ELSE IF ~ch.open
    THEN [ch |-> ch, result |-> "Closed", item |-> None]
    ELSE [ch |-> ch, result |-> "Pending", item |-> None]

\* notify_senders: every sender that is not closed gets a copy; a closed
\* one is taken out of its slot; the vector is cleaned up when enough slots
\* are empty
notify_senders(event, snd, rcv) ==
    LET expired(i) == snd[i] = None \/ is_closed(rcv[snd[i]])
        expired_count == Cardinality({i \in DOMAIN snd : expired(i)})
        taken_out == [i \in DOMAIN snd |-> IF expired(i) THEN None ELSE snd[i]]
        sent == [t \in DOMAIN rcv |->
                   IF \E i \in DOMAIN snd : snd[i] = t /\ ~expired(i)
                   THEN [rcv[t] EXCEPT !.queue = Append(@, event)]
                   ELSE rcv[t]]
    IN [senders |-> IF expired_count > CHANNEL_CLEANUP_MIN_COUNT
                    THEN SelectSeq(taken_out, LAMBDA x : x # None)
                    ELSE taken_out,
        receivers |-> sent]

\* notify_senders while the owner of tap r drops it between the is_closed
\* test of its sender and the send: the senders ahead of r are served, the
\* send to r fails and its unwrap panics, the senders behind r get nothing
notify_senders_until(event, snd, rcv, r) ==
    LET at == CHOOSE i \in DOMAIN snd : snd[i] = r
        expired(i) == snd[i] = None \/ is_closed(rcv[snd[i]])
    IN [senders |-> [i \in DOMAIN snd |->
                       IF i < at /\ expired(i) THEN None ELSE snd[i]],
        receivers |-> [t \in DOMAIN rcv |->
                         IF \E i \in 1..(at - 1) : snd[i] = t /\ ~expired(i)
                         THEN [rcv[t] EXCEPT !.queue = Append(@, event)]
                         ELSE rcv[t]]]

\* close_senders that empties the vector and closes no channel
CloseSendersKeepsOpen(snd, rcv) ==
    [senders |-> snd, receivers |-> rcv]

\* close_senders: every channel is closed and the vector emptied, which
\* drops the senders
close_senders(snd, rcv) ==
    [senders |-> <<>>,
     receivers |-> [t \in DOMAIN rcv |->
                      IF \E i \in DOMAIN snd : snd[i] = t
                      THEN [rcv[t] EXCEPT !.open = FALSE]
                      ELSE rcv[t]]]

\* pull_in_new_changes that sends the most recent event again when the
\* upstream has nothing new
PullInResendsLatest(in, recent, snd, rcv) ==
    LET p == InputPoll(in) IN
    IF p.result = "Item"
    THEN LET n == notify_senders(p.item, snd, rcv)
         IN [input |-> p.input, most_recent_event |-> p.item,
             senders |-> n.senders, receivers |-> n.receivers,
             has_new_changes |-> TRUE]
    ELSE IF p.result = "Closed"
    THEN LET c == close_senders(snd, rcv)
         IN [input |-> p.input, most_recent_event |-> recent,
             senders |-> c.senders, receivers |-> c.receivers,
             has_new_changes |-> TRUE]
    ELSE IF recent # None
    THEN LET n == notify_senders(recent, snd, rcv)
         IN [input |-> p.input, most_recent_event |-> recent,
             senders |-> n.senders, receivers |-> n.receivers,
             has_new_changes |-> TRUE]
    ELSE [input |-> p.input, most_recent_event |-> recent,
          senders |-> snd, receivers |-> rcv, has_new_changes |-> FALSE]

\* StructuralSignalBroadcasterState::pull_in_new_changes
pull_in_new_changes(in, recent, snd, rcv) ==
    LET p == InputPoll(in) IN
    IF p.result = "Item"
    THEN LET n == notify_senders(p.item, snd, rcv)
         IN [input |-> p.input, most_recent_event |-> p.item,
             senders |-> n.senders, receivers |-> n.receivers,
             has_new_changes |-> TRUE]
    ELSE IF p.result = "Closed"
    THEN LET c == close_senders(snd, rcv)
         IN [input |-> p.input, most_recent_event |-> recent,
             senders |-> c.senders, receivers |-> c.receivers,
             has_new_changes |-> TRUE]
    ELSE [input |-> p.input, most_recent_event |-> recent,
          senders |-> snd, receivers |-> rcv, has_new_changes |-> FALSE]

\* get_signal whose channel starts empty whatever the most recent event is
ReplayNothing(recent) == NewChannel

\* get_signal, the block under the read lock: a new channel, and the most
\* recent event, if there is one, sent into it
ReplayMostRecent(recent) ==
    IF recent # None
    THEN [NewChannel EXCEPT !.queue = <<recent>>]
    ELSE NewChannel

\* the upstream produces an item
UpstreamProduce ==
    /\ ~input.ended /\ input.avail < MaxItems
    /\ input' = [input EXCEPT !.avail = @ + 1]
    /\ tap_poll' = NoTapPoll
    /\ UNCHANGED <<most_recent_event, senders, receivers, tap_pc, received,
                   subscribed_after, collectionVars>>

\* the upstream ends: its polls report None once its items are handed out
UpstreamEnd ==
    /\ ~input.ended
    /\ input' = [input EXCEPT !.ended = TRUE]
    /\ tap_poll' = NoTapPoll
    /\ UNCHANGED <<most_recent_event, senders, receivers, tap_pc, received,
                   subscribed_after, collectionVars>>

\* get_signal up to the end of the block that holds the read lock
GetSignalReplay ==
    LET t == Cardinality(DOMAIN receivers) + 1 IN
    /\ t <= MaxTaps
    /\ receivers' = MapPut(receivers, t, ReplayMostRecent(most_recent_event))
    /\ tap_pc' = MapPut(tap_pc, t, "get_signal")
    /\ received' = MapPut(received, t, <<>>)
    /\ subscribed_after' = MapPut(subscribed_after, t, input.taken)
    /\ tap_poll' = NoTapPoll
    /\ UNCHANGED <<input, most_recent_event, senders, collectionVars>>

\* get_signal from the write lock on: the sender joins the vector
GetSignalPush(t) ==
    /\ t \in DOMAIN tap_pc /\ tap_pc[t] = "get_signal"
    /\ senders' = Append(senders, t)
    /\ tap_pc' = [tap_pc EXCEPT ![t] = "idle"]
    /\ tap_poll' = NoTapPoll
    /\ UNCHANGED <<input, most_recent_event, receivers, received,
                   subscribed_after, collectionVars>>

\* what a finished poll of tap t leaves in the ghost variables
TapPolled(t, p) ==
    /\ tap_poll' = [tap |-> t, result |-> p.result, item |-> p.item]
    /\ received' = IF p.result = "Item"
                   THEN [received EXCEPT ![t] = Append(@, p.item)]
                   ELSE received

\* BroadcastedStructuralSignal::poll_change up to the write lock: the poll
\* of the own queue, returned if it is ready
TapPollQueue(t) ==
    /\ t \in DOMAIN tap_pc /\ tap_pc[t] = "idle"
    /\ LET p == poll_next(receivers[t]) IN
       IF p.result # "Pending"
       THEN /\ receivers' = [receivers EXCEPT ![t] = p.ch]
            /\ TapPolled(t, p)
            /\ UNCHANGED tap_pc
       ELSE /\ tap_pc' = [tap_pc EXCEPT ![t] = "pull_in"]
            /\ tap_poll' = NoTapPoll
            /\ UNCHANGED <<receivers, received>>
    /\ UNCHANGED <<input, most_recent_event, senders, subscribed_after,
                   collectionVars>>

\* poll_change from the write lock on: the shared advance, then the own
\* queue again if the advance brought something
TapPullIn(t) ==
    /\ t \in DOMAIN tap_pc /\ tap_pc[t] = "pull_in"
    /\ LET b == pull_in_new_changes(input, most_recent_event, senders,
                                    receivers)
           p == IF b.has_new_changes
                THEN poll_next(b.receivers[t])
                ELSE [ch |-> b.receivers[t], result |-> "Pending",
                      item |-> None]
       IN /\ input' = b.input
          /\ most_recent_event' = b.most_recent_event
          /\ senders' = b.senders
          /\ receivers' = [b.receivers EXCEPT ![t] = p.ch]
          /\ TapPolled(t, p)
    /\ tap_pc' = [tap_pc EXCEPT ![t] = "idle"]
    /\ UNCHANGED <<subscribed_after, collectionVars>>

\* poll_change from the write lock on, while another thread drops tap r in
\* the middle of notify_senders: the item is taken, the unwrap panics and
\* the poll unwinds, which drops the polling task and its tap
TapPullInRacingDrop(t, r) ==
    /\ t \in DOMAIN tap_pc /\ tap_pc[t] = "pull_in"
    /\ r \in DOMAIN tap_pc /\ tap_pc[r] = "idle" /\ r # t
    /\ ~is_closed(receivers[r])
    /\ \E i \in DOMAIN senders : senders[i] = r
    /\ InputPoll(input).result = "Item"
    /\ LET p == InputPoll(input)
           n == notify_senders_until(p.item, senders, receivers, r)
       IN /\ input' = p.input
          /\ most_recent_event' = p.item
          /\ senders' = n.senders
          /\ receivers' = [x \in DOMAIN receivers |->
                             IF x \in {t, r}
                             THEN [n.receivers[x] EXCEPT !.alive = FALSE,
                                                         !.queue = <<>>]
                             ELSE n.receivers[x]]
    /\ tap_pc' = [tap_pc EXCEPT ![t] = "panicked", ![r] = "dropped"]
    /\ tap_poll' = [tap |-> t, result |-> "Panicked", item |-> None]
    /\ UNCHANGED <<received, subscribed_after, collectionVars>>

\* the consumer drops its tap, and with it the receiver
TapDrop(t) ==
    /\ t \in DOMAIN tap_pc /\ tap_pc[t] = "idle"
    /\ receivers' = [receivers EXCEPT ![t] =
                        [@ EXCEPT !.alive = FALSE, !.queue = <<>>]]
    /\ tap_pc' = [tap_pc EXCEPT ![t] = "dropped"]
    /\ tap_poll' = NoTapPoll
    /\ UNCHANGED <<input, most_recent_event, senders, received,
                   subscribed_after, collectionVars>>

NextBroadcast ==
    \/ UpstreamProduce
    \/ UpstreamEnd
    \/ GetSignalReplay
    \/ \E t \in 1..MaxTaps : GetSignalPush(t)
    \/ \E t \in 1..MaxTaps : TapPollQueue(t)
    \/ \E t \in 1..MaxTaps : TapPullIn(t)
    \/ \E t, r \in 1..MaxTaps : TapPullInRacingDrop(t, r)
    \/ \E t \in 1..MaxTaps : TapDrop(t)

InitBroadcast == Constructed /\ probe = "broadcast"

SpecBroadcast == InitBroadcast /\ [][NextBroadcast]_vars

\* ------------------------------------------------------ the properties
\* the diffs of a batch (or of the log) that name key k
DiffsFor(ds, k) == {i \in DOMAIN ds : get_key(ds[i]) = k}

Polled == last_poll.result # "none"

\* C1: whenever a poll of the mirrored cursor delivered an event, the map of
\* the transformer equals the live map, and applying the event did not fail.
C1_MirrorEqualsLive ==
    last_poll.result = "Ready" => (mirror = hash_map /\ aborted = "none")

\* C2: whenever a poll of the mirrored cursor delivered an event, the vector
\* of the transformer equals the live vector, and applying the event read
\* and wrote inside the snapshot and the vector.
C2_VectorMirrorEqualsLive ==
    /\ last_poll.result = "Ready" => mirror = vector
    /\ aborted \notin {"snapshot index out of bounds",
                       "insert index out of bounds",
                       "set index out of bounds",
                       "remove index out of bounds"}

\* C3: the first pull of a cursor returns the full-replace sentinel and
\* nothing else, and the event made of it carries the map as it is then.
C3_FirstPullIsFullReplace ==
    (Polled /\ last_poll.first) =>
        /\ last_poll.diffs = <<full_replace>>
        /\ last_poll.snapshot = hash_map

\* a second cursor pulled for the first time from a log that holds diffs
\* the first cursor was given
C3_Witness ==
    /\ Polled /\ last_poll.first /\ last_poll.id = 2
    /\ DOMAIN pull_source.diffs # {}
    /\ 1 \in DOMAIN pull_source.signal_last_diff_numbers
    /\ hash_map # EmptyMap

\* C4: as long as no cursor was created, mutations leave the log empty, the
\* compaction index empty and the next diff number at its first value.
C4_UnobservedLogStaysEmpty ==
    pull_source.next_signal_id = 1 =>
        /\ pull_source.diffs = EmptyMap
        /\ pull_source.diffs_per_key = EmptyMap
        /\ pull_source.next_diff_index = 1

\* three mutations, keyed and global, and still no cursor
C4_Witness ==
    /\ pull_source.next_signal_id = 1
    /\ nops >= 3
    /\ Cardinality(DOMAIN hash_map) = 2

\* C9: a cursor that pulled before a Replace or Clear was logged gets, at
\* its next pull, the full-replace sentinel and nothing else.
C9_GlobalCollapsesBatch ==
    (Polled /\ last_poll.pending) => last_poll.diffs = <<full_replace>>

\* the log held the global diff and a keyed diff logged after it
C9_Witness ==
    /\ Polled /\ last_poll.pending
    /\ \E n \in DOMAIN pull_source.diffs : get_key(pull_source.diffs[n]) # None
    /\ \E n \in DOMAIN pull_source.diffs : get_key(pull_source.diffs[n]) = None

\* C10: the diffs a cursor receives carry increasing stamps, within a batch
\* and from one batch to the next: the diffs of any one key reach every
\* cursor in the order of the mutations that made them.
C10_DiffsInMutationOrder ==
    Polled =>
        \A i \in DOMAIN last_poll.diffs :
            get_key(last_poll.diffs[i]) # None =>
                /\ last_poll.diffs[i].stamp > last_poll.seen
                /\ \A j \in DOMAIN last_poll.diffs :
                      (i < j /\ get_key(last_poll.diffs[j])
                                  = get_key(last_poll.diffs[i]))
                      => last_poll.diffs[i].stamp < last_poll.diffs[j].stamp

\* the slower cursor got two diffs of one key in one batch, after an
\* earlier batch that held a keyed diff
C10_Witness ==
    /\ Polled /\ last_poll.seen > 0
    /\ \E i, j \in DOMAIN last_poll.diffs :
          /\ i < j
          /\ get_key(last_poll.diffs[i]) # None
          /\ get_key(last_poll.diffs[i]) = get_key(last_poll.diffs[j])
    /\ Cardinality(DOMAIN pull_source.signal_last_diff_numbers) = 2

\* C11: a poll of a cursor whose recorded number is the newest one assigned
\* returns no diff and leaves the log, the compaction index and every cursor
\* as they were.
C11_PullAtHeadIsNoOp ==
    [][\A id \in 1..MaxSignals :
          (last_poll'.result # "none" /\ last_poll'.id = id
              /\ AtHead(pull_source, id))
          => (last_poll'.diffs = <<>> /\ pull_source' = pull_source)]_vars

\* a cursor at the newest number polled while the log held diffs and another
\* cursor was behind
C11_Witness ==
    /\ Polled /\ last_poll.at_head
    /\ DOMAIN pull_source.diffs # {}
    /\ \E other \in DOMAIN pull_source.signal_last_diff_numbers :
          pull_source.signal_last_diff_numbers[other]
              < pull_source.next_diff_index - 1

\* C12: right after a poll that delivered a batch the compaction index is
\* empty, and the index never names a diff that some cursor has pulled: the
\* next add on the key of such a diff finds no diff to merge with.
C12_DeliveredDiffsLeaveIndex ==
    /\ last_poll.result = "Ready" => pull_source.diffs_per_key = EmptyMap
    /\ Range(pull_source.diffs_per_key) \cap Delivered(pull_source) = {}

\* the log holds two diffs of one key: the older one pulled by one cursor
\* and not by the other, the newer one named by the index
C12_Witness ==
    \E n1, n2 \in DOMAIN pull_source.diffs :
        /\ n1 < n2
        /\ get_key(pull_source.diffs[n1]) # None
        /\ get_key(pull_source.diffs[n1]) = get_key(pull_source.diffs[n2])
        /\ n1 \in Delivered(pull_source)
        /\ \E id \in DOMAIN pull_source.signal_last_diff_numbers :
              pull_source.signal_last_diff_numbers[id] < n1
        /\ n2 \in Range(pull_source.diffs_per_key)

\* a diff that some cursor has pulled keeps its number, kind and key in the
\* step from log old to log new, unless the step added a global diff
DeliveredStay(old, new) ==
    \/ \A n \in Delivered(old) :
          /\ n \in DOMAIN new.diffs
          /\ new.diffs[n].kind = old.diffs[n].kind
          /\ get_key(new.diffs[n]) = get_key(old.diffs[n])
    \/ \E m \in DOMAIN new.diffs :
          m >= old.next_diff_index /\ get_key(new.diffs[m]) = None

C20_TrueOnceIdIssued ==
    pull_source.next_signal_id > 1 => has_listening_signal(pull_source)

\* C20, amended: has_listening_signal is true from the first pull of any
\* cursor on, and never returns to false.
C20_TrueOncePulled ==
    [][/\ last_poll'.result # "none" => has_listening_signal(pull_source')
       /\ has_listening_signal(pull_source)
             => has_listening_signal(pull_source')]_vars

\* two ids issued, one of the cursors pulled, and diffs logged since
C20_Witness ==
    /\ pull_source.next_signal_id = 3
    /\ Cardinality(DOMAIN pull_source.signal_last_diff_numbers) = 1
    /\ has_listening_signal(pull_source)
    /\ DOMAIN pull_source.diffs # {}

\* the taps whose sender sits in the vector and whose channel is open
OpenTaps ==
    {t \in DOMAIN receivers :
        /\ \E i \in DOMAIN senders : senders[i] = t
        /\ ~is_closed(receivers[t])}

\* what tap t was handed so far, followed by what waits in its queue
Stream(rcvd, rcv, t) == rcvd[t] \o rcv[t].queue

\* C14: a step takes at most the next item from the upstream, and when it
\* takes one, the item becomes the most recent event and is appended to the
\* queue of every tap that is open at that moment and not dropped by it
C14_EachItemOnceToEveryOpenTap ==
    [][/\ input'.taken \in {input.taken, input.taken + 1}
       /\ input'.taken = input.taken + 1 =>
             /\ most_recent_event' = input'.taken
             /\ \A t \in OpenTaps :
                   receivers'[t].alive =>
                   Stream(received', receivers', t)
                      = Append(Stream(received, receivers, t), input'.taken)
      ]_vars

\* C15: a tap made after the broadcaster obtained an item holds a copy of
\* the most recent one at the head of its queue until its first poll, which
\* delivers it; a tap made before any item starts with an empty queue
C15_ReplayIsFirstDelivery ==
    /\ most_recent_event = (IF input.taken = 0 THEN None ELSE input.taken)
    /\ \A t \in DOMAIN received :
          /\ (subscribed_after[t] > 0 /\ received[t] = <<>>) =>
                /\ tap_pc[t] \in {"get_signal", "idle", "dropped"}
                /\ receivers[t].alive =>
                      /\ receivers[t].queue # <<>>
                      /\ Head(receivers[t].queue) = subscribed_after[t]
          /\ (subscribed_after[t] > 0 /\ received[t] # <<>>) =>
                Head(received[t]) = subscribed_after[t]
          /\ (subscribed_after[t] > 0 /\ tap_poll.tap = t) =>
                received[t] # <<>>
          /\ (subscribed_after[t] = 0 /\ tap_pc[t] = "get_signal") =>
                receivers[t].queue = <<>>

\* a tap made after two items gets the second on its first poll although
\* the upstream has nothing new, next to a tap made before any item
C15_Witness ==
    \E t, u \in DOMAIN received :
       /\ subscribed_after[t] = 2 /\ input.taken = 2 /\ input.avail = 2
       /\ tap_poll = [tap |-> t, result |-> "Item", item |-> 2]
       /\ received[t] = <<2>>
       /\ subscribed_after[u] = 0 /\ received[u] = <<1, 2>>

\* no item occurs twice in sequence q
NoRepeat(q) == \A i, j \in DOMAIN q : i # j => q[i] # q[j]

\* C16: no tap is ever handed, or has waiting, the same item twice; a tap
\* made after item N was handed N once when it has been polled; and a poll
\* of a tap whose queue is empty while the upstream has nothing new
\* delivers no item
C16_NoItemTwice ==
    [][\A t \in DOMAIN received' :
          /\ NoRepeat(Stream(received', receivers', t))
          /\ (subscribed_after'[t] > 0 /\ tap_poll'.tap = t) =>
                Cardinality({i \in DOMAIN received'[t] :
                               received'[t][i] = subscribed_after'[t]}) = 1
          /\ (/\ tap_poll'.tap = t
              /\ receivers[t].queue = <<>>
              /\ input.taken = input.avail) =>
                /\ tap_poll'.result # "Item"
                /\ received'[t] = received[t]
      ]_vars

\* a tap made after item 1 was handed it, and its next poll, with nothing
\* new upstream, reports no update
C16_Witness ==
    \E t \in DOMAIN received :
       /\ subscribed_after[t] = 1 /\ received[t] = <<1>>
       /\ input.taken = 1 /\ ~input.ended
       /\ tap_poll = [tap |-> t, result |-> "Pending", item |-> None]

\* C17: what a tap was handed, followed by what waits in its queue, is a
\* run of consecutive upstream items: in upstream order and without a gap
\* after the first
C17_InOrderWithoutGaps ==
    \A t \in DOMAIN received :
       LET q == Stream(received, receivers, t)
       IN \A i \in 1..(Len(q) - 1) : q[i + 1] = q[i] + 1

\* the taps whose sender sits in the vector
Registered == {t \in DOMAIN receivers : \E i \in DOMAIN senders : senders[i] = t}

\* q is what is left of p after some items were taken from its front
IsSuffix(q, p) ==
    /\ Len(q) <= Len(p)
    /\ \A i \in DOMAIN q : q[i] = p[i + Len(p) - Len(q)]

\* C18: the advance that gets the end of the upstream empties the vector
\* and closes the channel of every tap in it, losing no queued item; a closed
\* channel stays closed and gets no further item; a poll of a closed tap
\* delivers the head of its queue while there is one, and Closed after;
\* and once the end was reported, every poll of a tap with an empty queue
\* reports Closed
C18_ExhaustionClosesEveryTap ==
    [][/\ (input'.reported_end /\ ~input.reported_end) =>
             /\ senders' = <<>>
             /\ \A t \in Registered :
                   /\ ~receivers'[t].open
                   /\ Stream(received', receivers', t)
                         = Stream(received, receivers, t)
       /\ \A t \in DOMAIN receivers :
             ~receivers[t].open =>
                /\ ~receivers'[t].open
                /\ IsSuffix(receivers'[t].queue, receivers[t].queue)
                /\ tap_poll'.tap = t =>
                      IF receivers[t].queue # <<>>
                      THEN /\ tap_poll'.result = "Item"
                           /\ tap_poll'.item = Head(receivers[t].queue)
                           /\ receivers'[t].queue = Tail(receivers[t].queue)
                      ELSE tap_poll'.result = "Closed"
       /\ \A t \in DOMAIN receivers :
             (/\ input.reported_end
              /\ tap_poll'.tap = t
              /\ receivers[t].queue = <<>>) => tap_poll'.result = "Closed"
      ]_vars

\* after the end was reported, a closed tap has delivered item 2 from its
\* queue with item 3 still waiting, and another tap reported Closed before
C18_Witness ==
    \E t, u \in DOMAIN received :
       /\ input.reported_end
       /\ ~receivers[t].open /\ ~receivers[u].open
       /\ received[t] = <<1, 2, 3>> /\ receivers[t].alive
       /\ tap_poll = [tap |-> u, result |-> "Item", item |-> 2]
       /\ receivers[u].queue = <<3>>

\* C19: the upstream is never polled after it has reported its end
C19_UpstreamNotPolledAfterEnd == ~input.repolled

\* C21: a step that hands out an id changes nothing else of the log; the
\* cursor entry of an id appears with its first pull and not before; and
\* while no cursor has pulled, the log is empty and its numbering untouched
C21_SubscribeLeavesLogAlone ==
    [][/\ pull_source'.next_signal_id # pull_source.next_signal_id =>
             /\ pull_source'.next_signal_id = pull_source.next_signal_id + 1
             /\ [pull_source' EXCEPT !.next_signal_id = @ - 1] = pull_source
       /\ DOMAIN pull_source'.signal_last_diff_numbers =
             DOMAIN pull_source.signal_last_diff_numbers
                \cup (IF last_poll'.result # "none"
                      THEN {last_poll'.id} ELSE {})
       /\ ~has_listening_signal(pull_source') =>
             /\ pull_source'.diffs = EmptyMap
             /\ pull_source'.diffs_per_key = EmptyMap
             /\ pull_source'.next_diff_index = 1
      ]_vars

\* two ids were handed out and the map was mutated; the first pull of one
\* cursor has just created its entry, the other cursor has none
C21_Witness ==
    /\ pull_source.next_signal_id = 3 /\ nops >= 1
    /\ last_poll.first /\ last_poll.result = "Ready"
    /\ DOMAIN pull_source.signal_last_diff_numbers = {last_poll.id}
    /\ pull_source.diffs = EmptyMap

\* the map after insert(1, 1), and after insert(1, 1) and insert(2, 2)
MapOne == MapPut(EmptyMap, 1, 1)

MapOneTwo == MapPut(MapOne, 2, 2)

\* the one cursor has just polled for the first time, after insert(1, 1)
FirstPollAfterInsertOne ==
    /\ nops = 1 /\ hash_map = MapOne
    /\ pull_source.next_signal_id = 2
    /\ last_poll.id = 1 /\ last_poll.first
    /\ Len(last_poll.window) = 1 /\ last_poll.window[1].kind = "Insert"

\* the one cursor has polled again, with insert(2, 2) as the only mutation
\* since its last poll
SecondPollAfterInsertTwo ==
    /\ nops = 2 /\ hash_map = MapOneTwo
    /\ pull_source.next_signal_id = 2
    /\ last_poll.id = 1 /\ ~last_poll.first /\ last_poll.result # "none"
    /\ Len(last_poll.window) = 1
    /\ last_poll.window[1].kind = "Insert" /\ last_poll.window[1].key = 2

\* the parts of the scenario that do not depend on the first snapshot
ScenarioLogAndBatches ==
    /\ (nops = 1 /\ hash_map = MapOne /\ pull_source.next_signal_id = 1) =>
          pull_source.diffs = EmptyMap
    /\ FirstPollAfterInsertOne => last_poll.diffs = <<full_replace>>
    /\ SecondPollAfterInsertTwo =>
          /\ Len(last_poll.diffs) = 1
          /\ last_poll.diffs[1].kind = "Insert"
          /\ last_poll.diffs[1].key = 2
          /\ last_poll.snapshot = MapOneTwo

\* C22 as stated: in the scenario the first batch comes with the snapshot {}
C22_FirstSnapshotEmpty ==
    /\ ScenarioLogAndBatches
    /\ FirstPollAfterInsertOne => last_poll.snapshot = EmptyMap

\* C22, amended: insert(1, 1) without a subscriber leaves the log empty;
\* the first poll returns [Replace] with the snapshot {1: 1}; after
\* insert(2, 2) the poll returns [Insert(2)] with the snapshot {1: 1, 2: 2}
C22_FirstSnapshotIsMap ==
    /\ ScenarioLogAndBatches
    /\ FirstPollAfterInsertOne => last_poll.snapshot = MapOne

\* the end of the scenario: the second poll has returned its batch
C22_Witness ==
    /\ SecondPollAfterInsertTwo
    /\ last_poll.result = "Ready"
    /\ last_poll.diffs[1].stamp = 2

\* the taps whose sender sits in the vector although their channel is
\* closed or their receiver dropped
ExpiredTaps ==
    {t \in DOMAIN receivers :
        /\ \E i \in DOMAIN senders : senders[i] = t
        /\ is_closed(receivers[t])}

\* C23: a step that distributes an item while the vector holds the sender
\* of a closed or dropped tap does not panic, leaves none of these senders
\* in the vector, and appends the item to the queue of every open tap
C23_ExpiredTapPrunedSilently ==
    [][(input'.taken = input.taken + 1 /\ ExpiredTaps # {}) =>
          /\ tap_poll'.result # "Panicked"
          /\ \A t \in ExpiredTaps : \A i \in DOMAIN senders' : senders'[i] # t
          /\ \A t \in OpenTaps :
                receivers'[t].alive =>
                Stream(received', receivers', t)
                   = Append(Stream(received, receivers, t), input'.taken)
      ]_vars

\* no pull was made since the last call that changed the log
JustCalled == last_add.outcome # "none" /\ last_add.pulls = 0

\* the last call on the log was add_diff, on a log with a cursor, of a
\* keyed diff whose key had an open diff: the number of that open diff
PrevIndex == last_add.before.diffs_per_key[get_key(last_add.diff)]

\* the last call was add_diff and met an open diff of the key in the log
MetOpenDiff ==
    /\ last_add.outcome \notin {"none", "update_keys", "Unobserved", "Global",
                                "Append", "Missing"}
    /\ PrevIndex \in DOMAIN last_add.before.diffs

\* the last call was add_diff of an Insert whose key had an open Insert
TwoInserts ==
    /\ MetOpenDiff
    /\ last_add.diff.kind = "Insert"
    /\ last_add.before.diffs[PrevIndex].kind = "Insert"

\* C24: add_diff of an Insert on a key whose open diff is an Insert panics
\* and leaves the log as it was before the call
C24_TwoInsertsAbortLogUnchanged ==
    TwoInserts =>
       /\ last_add.panic # "none"
       /\ pull_source = last_add.before

\* C26: after an add whose merge outcome is Ignore the whole log equals the
\* log before the call: the previous diff at its number, the compaction
\* index pointing to it, the next number, every other diff and every cursor
C26_IgnoreRestoresLog ==
    (last_add.outcome = "Ignore" /\ last_add.pulls = 0) =>
       /\ aborted = "none"
       /\ pull_source.diffs = last_add.before.diffs
       /\ pull_source.diffs_per_key = last_add.before.diffs_per_key
       /\ pull_source.next_diff_index = last_add.before.next_diff_index
       /\ pull_source.signal_last_diff_numbers =
             last_add.before.signal_last_diff_numbers
       /\ pull_source.next_signal_id = last_add.before.next_signal_id

\* an Update ignored on a key whose Insert is open, with another diff in
\* the log
C26_Witness ==
    /\ last_add.outcome = "Ignore" /\ last_add.pulls = 0
    /\ last_add.diff.kind = "Update"
    /\ Cardinality(DOMAIN pull_source.diffs) >= 2
    /\ get_key(last_add.diff) \in DOMAIN pull_source.diffs_per_key

\* the last call was add_diff with the outcome KeepBoth
KeptBoth == MetOpenDiff /\ last_add.outcome = "KeepBoth"

\* the log right after a KeepBoth: the previous diff at its number and out
\* of the compaction index, the new diff at the next number and open
KeepBothLog ==
    LET key == get_key(last_add.diff)
        new_index == last_add.before.next_diff_index
    IN /\ aborted = "none"
       /\ PrevIndex \in DOMAIN pull_source.diffs
       /\ pull_source.diffs[PrevIndex] = last_add.before.diffs[PrevIndex]
       /\ \A k \in DOMAIN pull_source.diffs_per_key :
              pull_source.diffs_per_key[k] # PrevIndex
       /\ new_index \in DOMAIN pull_source.diffs
       /\ pull_source.diffs[new_index] = last_add.diff
       /\ key \in DOMAIN pull_source.diffs_per_key
       /\ pull_source.diffs_per_key[key] = new_index
       /\ pull_source.next_diff_index = new_index + 1

\* the batch of the last pull holds the previous diff and, after it, the new
PreviousThenNew ==
    \E i, j \in DOMAIN last_poll.diffs :
        /\ i < j
        /\ last_poll.diffs[i] = last_add.before.diffs[PrevIndex]
        /\ last_poll.diffs[j] = last_add.diff

\* C27 as stated: after a KeepBoth the previous diff is in the log at its
\* number and out of the compaction index, the new diff is at the next
\* number and open, and the next pull returns both, the previous one first
C27_KeepBothReturnedByNextPull ==
    /\ (KeptBoth /\ last_add.pulls = 0) => KeepBothLog
    /\ (KeptBoth /\ last_add.pulls = 1) => PreviousThenNew

\* C27: after a KeepBoth the previous diff is in the log at its number and
\* out of the compaction index, the new diff is at the next number and
\* open; the next pull returns both, the previous one first, unless it
\* returns the single full replace
C27_KeepBothReturnedUnlessReplace ==
    /\ (KeptBoth /\ last_add.pulls = 0) => KeepBothLog
    /\ (KeptBoth /\ last_add.pulls = 1) =>
          \/ PreviousThenNew
          \/ last_poll.diffs = <<full_replace>>

\* a pull right after a KeepBoth returned the previous diff and the new one
C27_Witness ==
    /\ KeptBoth /\ last_add.pulls = 1
    /\ PreviousThenNew
    /\ last_add.diff.kind # last_add.before.diffs[PrevIndex].kind

\* C28: right after add_diff of a global diff on a log with a registered
\* cursor, the log holds that diff alone, at a number no diff had before,
\* and the compaction index is empty
C28_GlobalDiffAloneInLog ==
    (last_add.outcome = "Global" /\ last_add.pulls = 0) =>
       LET n == last_add.before.next_diff_index
       IN /\ aborted = "none"
          /\ DOMAIN pull_source.diffs = {n}
          /\ pull_source.diffs[n] = last_add.diff
          /\ \A m \in DOMAIN last_add.before.diffs : m < n
          /\ pull_source.next_diff_index = n + 1
          /\ pull_source.diffs_per_key = EmptyMap

\* a global diff was added to a log that held two diffs, one of them open
C28_Witness ==
    /\ last_add.outcome = "Global" /\ last_add.pulls = 0
    /\ Cardinality(DOMAIN last_add.before.diffs) >= 2
    /\ last_add.before.diffs_per_key # EmptyMap
    /\ DOMAIN pull_source.diffs = {last_add.before.next_diff_index}

\* the numbers of the diffs the log held before the last add, the open diff
\* of the added key left out
OtherNumbers == DOMAIN last_add.before.diffs \ {PrevIndex}

\* the stamps of the diffs of a batch, those of the two diffs of the merge
\* left out
OtherStamps(batch) ==
    LET own == {last_add.diff.stamp, last_add.before.diffs[PrevIndex].stamp}
        Other(d) == d.stamp \notin own
        rest == SelectSeq(batch, Other)
    IN [i \in DOMAIN rest |-> rest[i].stamp]

\* the diffs numbered above the cursor of the last pull before the last add,
\* the open diff left out, in the order of their numbers
OtherBacklog ==
    LET last == last_add.before.signal_last_diff_numbers[last_poll.id]
        nums == SortedSeq({n \in OtherNumbers : n > last})
    IN [i \in DOMAIN nums |-> last_add.before.diffs[nums[i]].stamp]

\* C29: an add that met an open diff of its key leaves every other diff of
\* the log in place, at its number and of its kind, and the next pull, if
\* not the single full replace, returns the other diffs it owes in the
\* order they were logged
C29_CompactionSparesOtherKeys ==
    /\ (MetOpenDiff /\ last_add.pulls = 0) =>
          \A n \in OtherNumbers :
             /\ n \in DOMAIN pull_source.diffs
             /\ pull_source.diffs[n].stamp = last_add.before.diffs[n].stamp
             /\ pull_source.diffs[n].kind = last_add.before.diffs[n].kind
    /\ (MetOpenDiff /\ last_add.pulls = 1
          /\ last_poll.diffs # <<full_replace>>) =>
          OtherStamps(last_poll.diffs) = OtherBacklog

\* insert(k), insert(k2), remove(k), then a pull that returns the Insert of
\* k2 alone
C29_Witness ==
    /\ MetOpenDiff /\ last_add.pulls = 1
    /\ last_add.outcome = "DiscardBoth"
    /\ Len(last_poll.diffs) = 1
    /\ last_poll.diffs[1].kind = "Insert"
    /\ last_poll.diffs[1].stamp > last_add.before.diffs[PrevIndex].stamp
    /\ last_poll.diffs[1].stamp < last_add.diff.stamp

\* the last call on a log of vector diffs was update_keys
KeysUpdated ==
    /\ probe = "vlog"
    /\ last_add.outcome = "update_keys" /\ last_add.pulls = 0

\* every entry of the compaction index before the call is in the index
\* after it, under the key the mapper gives and at its number
IndexRewritten ==
    LET old == last_add.before.diffs_per_key
        new == pull_source.diffs_per_key
    IN /\ DOMAIN new = {last_add.updater[k] : k \in DOMAIN old}
       /\ \A k \in DOMAIN old : new[last_add.updater[k]] = old[k]

\* every open diff has the position the mapper gives to its old one
OpenDiffsRewritten ==
    LET old == last_add.before.diffs_per_key
    IN \A k \in DOMAIN old :
          old[k] \in DOMAIN last_add.before.diffs =>
             get_snapshot_key(pull_source.diffs[old[k]]) =
                last_add.updater[get_snapshot_key(
                                    last_add.before.diffs[old[k]])]

\* numbers, kinds, order, cursors and counters are those before the call
RestUntouched ==
    /\ DOMAIN pull_source.diffs = DOMAIN last_add.before.diffs
    /\ \A n \in DOMAIN pull_source.diffs :
          /\ pull_source.diffs[n].kind = last_add.before.diffs[n].kind
          /\ pull_source.diffs[n].stamp = last_add.before.diffs[n].stamp
    /\ pull_source.signal_last_diff_numbers =
          last_add.before.signal_last_diff_numbers
    /\ pull_source.next_diff_index = last_add.before.next_diff_index
    /\ pull_source.next_signal_id = last_add.before.next_signal_id

\* C30: on the log of an ordered collection update_keys gives every open
\* diff the position the mapper gives to its old one, moves every entry of
\* the compaction index to the key the mapper gives, and leaves numbers,
\* kinds, order, cursors and counters alone
C30_UpdateKeysRewritesOnlyKeys ==
    KeysUpdated =>
       /\ IndexRewritten
       /\ OpenDiffsRewritten
       /\ RestUntouched

\* the last mutation of the vector logged a Remove that cancelled the open
\* Insert of its position
Cancelled ==
    /\ probe = "vector"
    /\ MetOpenDiff
    /\ last_add.outcome = "DiscardBoth" /\ last_add.panic = "none"

\* diff number n of the log before the last add is in the compaction index
OpenBefore(n) ==
    \E k \in DOMAIN last_add.before.diffs_per_key :
        last_add.before.diffs_per_key[k] = n

\* diff number n sits, in the snapshot, above the open diff of the last add
Downstream(n) ==
    /\ get_key(last_add.before.diffs[n]) # None
    /\ last_add.before.diffs[n].snapshot_index >
          last_add.before.diffs[PrevIndex].snapshot_index

\* diff number n after the last add: its position one less, or as it was
MovedDown(n) ==
    /\ n \in DOMAIN last_add.after.diffs
    /\ last_add.after.diffs[n] =
          [last_add.before.diffs[n] EXCEPT !.index = @ - 1]

Untouched(n) ==
    /\ n \in DOMAIN last_add.after.diffs
    /\ last_add.after.diffs[n] = last_add.before.diffs[n]

\* the poll that follows the last add left the mirror equal to the vector
NextPollMirrorsVector ==
    (last_add.pulls = 1 /\ last_poll.result = "Ready") =>
        (aborted = "none" /\ mirror = vector)

C32_DiffsReferToSnapshot ==
    last_poll.result = "Ready" =>
       \A i \in DOMAIN last_poll.diffs :
          last_poll.diffs[i].kind \in {"Insert", "Update"} =>
             get_key(last_poll.diffs[i]) \in DOMAIN last_poll.snapshot

\* the last call on the vector was a mutation that logged a diff
VecMutated ==
    /\ probe = "vector"
    /\ last_add.outcome # "none" /\ last_add.pulls = 0
    /\ last_add.panic = "none"

\* C33: the update_keys that a remove of the vector issues after logging
\* its diff keeps the number of entries of the compaction index
C33_ShiftKeepsIndexEntries ==
    VecMutated =>
       Cardinality(DOMAIN vector_pull_source.diffs_per_key) =
          Cardinality(DOMAIN last_add.after.diffs_per_key)

\* every entry of the compaction index of ps names a diff of the log whose
\* snapshot key is the key of the entry, and no two entries name one diff
IndexSound(ps) ==
    /\ \A k \in DOMAIN ps.diffs_per_key :
          /\ ps.diffs_per_key[k] \in DOMAIN ps.diffs
          /\ get_snapshot_key(ps.diffs[ps.diffs_per_key[k]]) = k
    /\ \A k1, k2 \in DOMAIN ps.diffs_per_key :
          ps.diffs_per_key[k1] = ps.diffs_per_key[k2] => k1 = k2

\* C34: in every state the compaction index of the map and of the vector
\* is sound, and add_diff never fails to find the open diff of a key
C34_IndexSound ==
    /\ IndexSound(pull_source)
    /\ IndexSound(vector_pull_source)
    /\ aborted # "unwrap on None: open diff not in the log"

\* an add of the vector met the open diff of its position while the index
\* held an entry that a shift had moved away from the position it was
\* logged at
C34_Witness ==
    /\ probe = "vector"
    /\ MetOpenDiff /\ last_add.panic = "none" /\ last_add.pulls = 0
    /\ \E k \in DOMAIN vector_pull_source.diffs_per_key :
          vector_pull_source.diffs[vector_pull_source.diffs_per_key[k]].index
             # k

\* the diffs of a batch arrive at a mirror that holds keys: an Insert finds
\* its key absent, an Update and a Remove find it present; a Replace leaves
\* the keys of the snapshot
RECURSIVE ArriveInOrder(_, _, _)
ArriveInOrder(keys, diffs, snapshot_keys) ==
    IF diffs = <<>> THEN TRUE
    ELSE LET d == Head(diffs) IN
         CASE d.kind = "Replace" ->
                ArriveInOrder(snapshot_keys, Tail(diffs), snapshot_keys)
           [] d.kind = "Insert" ->
                /\ d.key \notin keys
                /\ ArriveInOrder(keys \cup {d.key}, Tail(diffs), snapshot_keys)
           [] d.kind = "Update" ->
                /\ d.key \in keys
                /\ ArriveInOrder(keys, Tail(diffs), snapshot_keys)
           [] d.kind = "Remove" ->
                /\ d.key \in keys
                /\ ArriveInOrder(keys \ {d.key}, Tail(diffs), snapshot_keys)
           [] OTHER -> ArriveInOrder({}, Tail(diffs), snapshot_keys)

\* C35: in every poll of the one cursor of the map, each delivered Insert
\* finds its key absent from the mirror and each delivered Update or Remove
\* finds it present
C35_DiffsFitMirror ==
    [][last_poll'.result = "Ready" =>
          ArriveInOrder(DOMAIN mirror, last_poll'.diffs, DOMAIN hash_map)]_vars

\* the map a consumer builds from m by applying the events of items in order
RECURSIVE ReplayItems(_, _)
ReplayItems(m, items) ==
    IF items = <<>> THEN m
    ELSE ReplayItems(MapApplyEvent(m, ItemEvent(Head(items))).m, Tail(items))

\* C36: the mirror a tap builds from an empty map out of the events it was
\* handed equals the snapshot of the last of them
C36_TapMirrorEqualsSnapshot ==
    \A t \in DOMAIN received :
       received[t] # <<>> =>
          ReplayItems(EmptyMap, received[t]) =
             ItemEvent(received[t][Len(received[t])]).snapshot

\* C37: a tap that get_signal has returned and that was not dropped was
\* handed, or has waiting, every item the upstream gave after the one that
\* was replayed to it
C37_NoItemMissedAtCreation ==
    \A t \in DOMAIN received :
       (tap_pc[t] # "get_signal" /\ receivers[t].alive) =>
          \A i \in (subscribed_after[t] + 1)..input.taken :
             i \in Range(Stream(received, receivers, t))

\* the diffs of a batch are keyed and stand in the log in the order of the
\* batch, at ascending numbers
KeyedAscending(batch, ps) ==
    /\ \A i \in DOMAIN batch : get_key(batch[i]) # None
    /\ \A i \in DOMAIN batch :
          \E n \in DOMAIN ps.diffs : ps.diffs[n] = batch[i]
    /\ \A i, j \in DOMAIN batch :
          i < j => \E n, m \in DOMAIN ps.diffs :
                      n < m /\ ps.diffs[n] = batch[i] /\ ps.diffs[m] = batch[j]

\* C38: the batch of every pull is empty, the full-replace sentinel alone,
\* or keyed diffs only, in the order of their numbers
C38_BatchShape ==
    \/ last_poll.diffs = <<>>
    \/ last_poll.diffs = <<full_replace>>
    \/ KeyedAscending(last_poll.diffs, pull_source)

\* a cursor that had pulled before got the sentinel alone while the log
\* held a Clear and a keyed diff logged after it
C38_Witness ==
    /\ probe \in {"log", "vlog"}
    /\ last_poll.result = "Ready" /\ ~last_poll.first
    /\ last_poll.diffs = <<full_replace>>
    /\ \E n, m \in DOMAIN pull_source.diffs :
          /\ n < m
          /\ pull_source.diffs[n].kind = "Clear"
          /\ get_key(pull_source.diffs[m]) # None

\* C39: no run of the vector ends in the panic of two inserts on one index
\* or in the panic of a keyed diff without a snapshot key
C39_NoInsertClashInVector ==
    probe = "vector" =>
       aborted \notin {"Found two inserts on the same key",
                       "Diff had a key but not a snapshot key"}

\* an insert at an index whose place held an open Insert: the shift moved
\* the open Insert one up and the new Insert was appended
C39_Witness ==
    /\ probe = "vector" /\ aborted = "none"
    /\ last_add.pulls = 0 /\ last_add.outcome = "Append"
    /\ last_add.diff.kind = "Insert"
    /\ LET above == last_add.diff.index + 1
           open == last_add.before.diffs_per_key
       IN /\ above \in DOMAIN open
          /\ open[above] \in DOMAIN last_add.before.diffs
          /\ last_add.before.diffs[open[above]].kind = "Insert"
          /\ last_add.before.diffs[open[above]].snapshot_index = above

\* C40: every call of snapshot() has returned: Some(the snapshot of the last
\* event) when the signal delivered an event, None when it delivered none
C40_SnapshotAlwaysReturns ==
    (probe = "snapshot" /\ last_poll.result \in {"Some", "None", "Blocked"}) =>
       IF last_poll.diffs # <<>>
       THEN last_poll.result = "Some" /\ last_poll.snapshot = hash_map
       ELSE last_poll.result = "None"

\* C25: whenever a poll of the filtered cursor applied a batch to the end
\* of apply_event, the map of the filter stage holds exactly the entries of
\* the snapshot of the batch whose values pass the predicate
C25_FilterOutputIsPassingEntries ==
    (last_poll.result = "Ready" /\ aborted = "none") =>
       mirror = Passing(last_poll.snapshot)

\* the mutations of a window that touch key k: its own and the global ones
KeyWindow(w, k) == SelectSeq(w, LAMBDA e : e.key = k \/ e.key = None)

\* the window ends, for k, with an insert followed by a remove
InsertRemove(w, k) ==
    LET kw == KeyWindow(w, k)
    IN /\ Len(kw) >= 2
       /\ kw[Len(kw)].kind = "Remove"
       /\ kw[Len(kw) - 1].kind = "Insert"

\* the window ends, for k, with an insert followed by updates, one or more;
\* i is the place of the insert
InsertUpdatesAt(w, k, i) ==
    LET kw == KeyWindow(w, k)
    IN /\ i \in 1..(Len(kw) - 1)
       /\ kw[i].kind = "Insert"
       /\ \A j \in (i + 1)..Len(kw) : kw[j].kind = "Update"

\* the window ends, for k, with updates from place i on followed by a remove,
\* and the updates are not those of a key inserted in the same window
UpdatesRemoveAt(w, k, i) ==
    LET kw == KeyWindow(w, k)
    IN /\ i \in 1..(Len(kw) - 1)
       /\ kw[Len(kw)].kind = "Remove"
       /\ \A j \in i..(Len(kw) - 1) : kw[j].kind = "Update"
       /\ (i > 1 => kw[i - 1].kind \notin {"Insert", "Update"})

UpdateRemove(w, k) ==
    LET kw == KeyWindow(w, k)
    IN /\ Len(kw) >= 2
       /\ kw[Len(kw)].kind = "Remove"
       /\ kw[Len(kw) - 1].kind = "Update"

\* the stamps of the diffs of ds that name k and were made at stamp s or later
Since(ds, k, s) == {i \in DOMAIN ds : get_key(ds[i]) = k /\ ds[i].stamp >= s}

\* C5: the snapshot of a delivered event is the map as it was when the batch
\* of the event was pulled: no mutation comes between the two.
C5_SnapshotIsStateAtPull ==
    last_poll.result = "Ready" => last_poll.snapshot = last_poll.live_at_pull

\* C6 as stated: after insert(k) of an absent key and remove(k) with no pull
\* between them, on a map with a consumer, the log holds no diff for k and
\* the next pull returns no diff for k.
C6_NoDiffForKeyAtAll ==
    \A k \in Keys :
        /\ (pull_source.next_signal_id > 1 /\ InsertRemove(window, k))
              => DiffsFor(pull_source.diffs, k) = {}
        /\ (Polled /\ InsertRemove(last_poll.window, k))
              => DiffsFor(last_poll.diffs, k) = {}

\* C6, amended: the insert and the remove leave no diff of their own in the
\* log and none in the next batch; diffs for k logged before the insert stay
\* in the log and are returned to the cursors that have not pulled them.
C6_InsertRemoveCancel ==
    \A k \in Keys :
        LET inserted(w) == KeyWindow(w, k)[Len(KeyWindow(w, k)) - 1].stamp
        IN /\ (pull_source.next_signal_id > 1 /\ InsertRemove(window, k))
                 => Since(pull_source.diffs, k, inserted(window)) = {}
           /\ (Polled /\ InsertRemove(last_poll.window, k))
                 => Since(last_poll.diffs, k, inserted(last_poll.window)) = {}

\* a cursor that had pulled before polls after insert(k), remove(k) and is
\* told there is no update
C6_Witness ==
    /\ last_poll.result = "Pending"
    /\ \E k \in Keys : InsertRemove(last_poll.window, k)

\* the value written by the last mutation of the window that touches k
FinalValue(w, k) == KeyWindow(w, k)[Len(KeyWindow(w, k))].stamp

\* C7 as stated: insert(k) then updates of k, no pull in between: the next
\* batch (of a cursor that pulled before) has exactly one diff for k, an
\* Insert, and the snapshot of the event holds the value of the last update.
C7_ExactlyOneInsert ==
    \A k \in Keys :
        (/\ Polled /\ ~last_poll.first
         /\ \E i \in 1..MaxOps : InsertUpdatesAt(last_poll.window, k, i))
        => /\ Cardinality(DiffsFor(last_poll.diffs, k)) = 1
           /\ \A n \in DiffsFor(last_poll.diffs, k) :
                 last_poll.diffs[n].kind = "Insert"
           /\ k \in DOMAIN last_poll.snapshot
           /\ last_poll.snapshot[k] = FinalValue(last_poll.window, k)

\* C7, amended: the snapshot of the next event holds the value of the last
\* update, and unless the batch is the full-replace sentinel, it holds
\* exactly one diff for k made by the insert or later, an Insert.
C7_InsertAbsorbsUpdates ==
    \A k \in Keys : \A i \in 1..MaxOps :
        (Polled /\ InsertUpdatesAt(last_poll.window, k, i))
        => LET made == Since(last_poll.diffs, k,
                             KeyWindow(last_poll.window, k)[i].stamp)
           IN /\ k \in DOMAIN last_poll.snapshot
              /\ last_poll.snapshot[k] = FinalValue(last_poll.window, k)
              /\ last_poll.diffs # <<full_replace>> =>
                    /\ Cardinality(made) = 1
                    /\ \A n \in made : last_poll.diffs[n].kind = "Insert"

\* a batch of keyed diffs pulled after insert(k) and two updates of k
C7_Witness ==
    /\ last_poll.result = "Ready"
    /\ last_poll.diffs # <<full_replace>>
    /\ \E k \in Keys : \E i \in 1..MaxOps :
          /\ InsertUpdatesAt(last_poll.window, k, i)
          /\ Len(KeyWindow(last_poll.window, k)) >= i + 2

\* C8 as stated: update(k) then remove(k), no pull in between: the next batch
\* (of a cursor that pulled before) has exactly one diff for k, a Remove.
C8_ExactlyOneRemove ==
    \A k \in Keys :
        (Polled /\ ~last_poll.first /\ UpdateRemove(last_poll.window, k))
        => /\ Cardinality(DiffsFor(last_poll.diffs, k)) = 1
           /\ \A n \in DiffsFor(last_poll.diffs, k) :
                 last_poll.diffs[n].kind = "Remove"

\* C8, amended: for a key that was not inserted in the same unobserved
\* window, and unless the batch is the full-replace sentinel, the batch holds
\* exactly one diff for k made by the update or later, a Remove.
C8_RemoveReplacesUpdate ==
    \A k \in Keys : \A i \in 1..MaxOps :
        (/\ Polled
         /\ UpdatesRemoveAt(last_poll.window, k, i)
         /\ last_poll.diffs # <<full_replace>>)
        => LET made == Since(last_poll.diffs, k,
                             KeyWindow(last_poll.window, k)[i].stamp)
           IN /\ Cardinality(made) = 1
              /\ \A n \in made : last_poll.diffs[n].kind = "Remove"

\* a batch of keyed diffs pulled after update(k), remove(k)
C8_Witness ==
    /\ last_poll.result = "Ready"
    /\ last_poll.diffs # <<full_replace>>
    /\ \E k \in Keys : \E i \in 1..MaxOps :
          UpdatesRemoveAt(last_poll.window, k, i)

====
